---- MODULE Spec2Model ----
(***************************************************************************)
(* Model of the aura compositing tool: the persisted-parameter loader and  *)
(* reducer (mergeParams / loadInitialParams / paramsReducer), the chamfer  *)
(* distance field (computeDistanceField) and the per-pixel stroke          *)
(* synthesis (createOutlineFromMask / renderAccessoryLayer).               *)
(***************************************************************************)
EXTENDS Integers, Sequences, FiniteSets, TLC

VARIABLES
    \* --- App state (App component, loader and reducer) ---
    appPc,          \* "init" | "loaded" | "ready" | "dirty"
    storage,        \* localStorage[PARAMS_STORAGE_KEY]
    params,         \* the reducer state
    target,         \* mergeParams: argument of the last call
    source,         \* mergeParams: argument of the last call
    output,         \* mergeParams: result of the last call
    dispatches,     \* number of reducer dispatches so far
    reloads,        \* number of page reloads so far
    \* --- computeDistanceField ---
    dfPc,           \* "idle" | "seed" | "pass1" | "pass2" | "done"
    physicalW,      \* width of the grid handed to computeDistanceField
    physicalH,      \* height of the grid
    data,           \* mask alpha per pixel index (imageData.data[i*4+3])
    dist,           \* the Float32Array, in units of 2^-23 (Infinity == Inf)
    \* --- renderAccessoryLayer / createOutlineFromMask ---
    olPc,           \* "idle" | "start" | "loop" | "done"
    config,         \* SilhouetteLayerParams of the layer
    logicalW,       \* logical width of the canvas
    scale,          \* physical pixels per logical pixel
    mask,           \* alpha of one scanline of masterMask (physical pixels)
    chokeData,      \* alpha of the same scanline of blurredChoke, after its blur
    geom,           \* padding and effective widths computed before the loop
    distanceField,  \* distance field of the padded scanline
    i,              \* loop index of the per-pixel loop
    cur,            \* locals of the loop body for the pixel last processed
    outData,        \* alpha channel of outputImage (padded scanline)
    layerAlpha,     \* alpha of the returned layer canvas (unpadded scanline)
    \* --- createSimplifiedMask (bounding-box centre) ---
    csmPc,          \* "idle" | "scan" | "center" | "done"
    csm,            \* arguments and locals of createSimplifiedMask
    \* --- generateSoftMask (img.onload handler) ---
    gsmPc,          \* "idle" | "corners" | "threshold" | "done"
    gsm,            \* locals of the onload handler
    \* --- handleFileChange (upload flow) ---
    uploads,        \* per upload: position in handleFileChange and its locals
    maskImage,      \* the maskImage state of App
    isProcessing,   \* the isProcessing state of App
    image,          \* the image state of App: the file it was decoded from, 0 for null
    \* --- renderAuraScene ---
    rnPc,           \* the stage renderAuraScene is about to execute
    scene,          \* arguments of the running render: image, params, maskImage, size
    canvas,         \* drawing operations on the target since it was last cleared
    stages,         \* the stages executed by the running render, in order
    rendered,       \* inputs and output rasters of the finished renders
    \* --- drawImageCover ---
    dicPc,          \* "idle" | "call" | "drawn" | "returned"
    dic,            \* arguments and locals of drawImageCover
    \* --- setParams from handlers of one rendered snapshot ---
    disp,           \* the rendered snapshot, the reducer state and the queued actions
    \* --- pointer handlers of CanvasDisplay ---
    ptr             \* dragTarget, the props of the component and the last event

appVars == <<appPc, storage, params, target, source, output, dispatches, reloads>>
dfVars == <<dfPc, physicalW, physicalH, data, dist>>
olVars == <<olPc, config, logicalW, scale, mask, chokeData, geom, distanceField, i, cur, outData, layerAlpha>>
mkVars == <<csmPc, csm, gsmPc, gsm>>
upVars == <<uploads, maskImage, isProcessing, image>>
rnVars == <<rnPc, scene, canvas, stages, rendered>>
dicVars == <<dicPc, dic>>
uiVars == <<disp, ptr>>
vars == <<appVars, dfVars, olVars, mkVars, upVars, rnVars, dicVars, uiVars>>

(***************************************************************************)
(* JavaScript values.  A value is a record [k, v, f]: k is the kind        *)
(* ("undef", "null", "prim", "arr", "obj"), v the JSON text of a primitive *)
(* and f the own enumerable properties of an object or the index map of an *)
(* array.                                                                  *)
(***************************************************************************)
EmptyFn == [key \in {} |-> 0]

Undef == [k |-> "undef", v |-> "", f |-> EmptyFn]

Null == [k |-> "null", v |-> "", f |-> EmptyFn]

Prim(text) == [k |-> "prim", v |-> text, f |-> EmptyFn]

Obj(fields) == [k |-> "obj", v |-> "", f |-> fields]

Arr(elems) == [k |-> "arr", v |-> "", f |-> elems]

\* typeof x === 'object' && x is truthy && !Array.isArray(x)
IsRecord(val) == val.k = "obj"

\* obj[key], undefined when the property is absent
Get(val, key) == IF val.k \in {"obj", "arr"} /\ key \in DOMAIN val.f THEN val.f[key] ELSE Undef

\* the keys a for-in loop visits
ForInKeys(val) == IF val.k \in {"obj", "arr"} THEN DOMAIN val.f ELSE {}

(***************************************************************************)
(* DEFAULT_PARAMS                                                          *)
(***************************************************************************)
defaultSilhouetteStops == Arr([idx \in {"0", "1"} |-> Prim(IF idx = "0" THEN "ss-stop-1" ELSE "ss-stop-2")])

defaultBackSilStops == Arr([idx \in {"0", "1"} |-> Prim(IF idx = "0" THEN "bs-stop-1" ELSE "bs-stop-2")])

DefaultBackSilhouette ==
    Obj([enabled |-> Prim("true"), strokeWidth |-> Prim("4"), strokeWidthMid |-> Prim("12"),
         strokeWidthEnd |-> Prim("2"), strokeScale |-> Prim("1"), mode |-> Prim("'solid'"),
         color |-> Prim("'#FF73E5'"), gradientStops |-> defaultBackSilStops,
         blurStart |-> Prim("5"), blurMid |-> Prim("5"), blurEnd |-> Prim("5"),
         opacity |-> Prim("0.8"), xOffset |-> Prim("0"), yOffset |-> Prim("0")])

DefaultInnerSilhouette ==
    Obj([enabled |-> Prim("false"), strokeWidth |-> Prim("0"), strokeWidthMid |-> Prim("0"),
         strokeWidthEnd |-> Prim("0"), strokeScale |-> Prim("1"), mode |-> Prim("'solid'"),
         color |-> Prim("'#FFFFFF'"), gradientStops |-> Arr(EmptyFn),
         blurStart |-> Prim("0"), blurMid |-> Prim("0"), blurEnd |-> Prim("0"),
         opacity |-> Prim("1.0"), xOffset |-> Prim("0"), yOffset |-> Prim("0")])

DefaultSilhouette ==
    Obj([mode |-> Prim("'solid'"), gradientType |-> Prim("'linear'"), color |-> Prim("'#F3EFEA'"),
         gradientStops |-> defaultSilhouetteStops, roundness |-> Prim("4"),
         backSilhouette |-> DefaultBackSilhouette, innerSilhouette |-> DefaultInnerSilhouette])

DefaultProgressiveBlur ==
    Obj([enabled |-> Prim("false"), startX |-> Prim("0.0"), startY |-> Prim("0.5"),
         endX |-> Prim("0.5"), endY |-> Prim("0.5"), startBlur |-> Prim("0"), endBlur |-> Prim("15")])

DEFAULT_PARAMS ==
    Obj([stabilityApiKey |-> Prim("'sk-...'"),
         showBackgroundOrbs |-> Prim("true"),
         showForegroundOrbs |-> Prim("true"),
         silhouette |-> DefaultSilhouette,
         background |-> Obj([color |-> Prim("'#F3EFEA'")]),
         backgroundOrbs |-> Arr([idx \in {"0", "1", "2", "3"} |-> Prim("bg-orb")]),
         foregroundOrbs |-> Arr([idx \in {"0", "1"} |-> Prim("fg-orb")]),
         progressiveBlur |-> DefaultProgressiveBlur])

(***************************************************************************)
(* mergeParams                                                             *)
(***************************************************************************)
\* { ...targetValue, ...sourceValue }
Spread(targetValue, sourceValue) ==
    Obj([nk \in DOMAIN targetValue.f \cup DOMAIN sourceValue.f |->
            IF nk \in DOMAIN sourceValue.f THEN sourceValue.f[nk] ELSE targetValue.f[nk]])

\* the body of the for-in loop for one key: the value assigned to output[key],
\* or Undef when the loop assigns nothing
MergeKeyDeepMutant(tgt, src, key) ==
    LET sourceValue == src.f[key]
        targetValue == Get(tgt, key)
    IN  IF sourceValue.k = "arr" THEN sourceValue
        ELSE IF sourceValue.k = "obj" THEN
            IF IsRecord(targetValue)
            THEN Obj([nk \in DOMAIN targetValue.f \cup DOMAIN sourceValue.f |->
                     IF nk \in DOMAIN sourceValue.f
                     THEN IF nk \in DOMAIN targetValue.f /\ IsRecord(sourceValue.f[nk])
                             /\ IsRecord(targetValue.f[nk])
                          THEN Spread(targetValue.f[nk], sourceValue.f[nk])
                          ELSE sourceValue.f[nk]
                     ELSE targetValue.f[nk]])
            ELSE sourceValue
        ELSE sourceValue

MergeKey(tgt, src, key) ==
    LET sourceValue == src.f[key]
        targetValue == Get(tgt, key)
    IN  IF sourceValue.k = "arr" THEN sourceValue
        ELSE IF sourceValue.k = "obj" THEN
            IF IsRecord(targetValue) THEN Spread(targetValue, sourceValue) ELSE sourceValue
        ELSE sourceValue

\* the keys of source whose iteration assigns output[key]
AssignedKeysMutant(src) == ForInKeys(src)

AssignedKeys(src) == {key \in ForInKeys(src) : src.f[key].k # "undef"}

mergeParams(tgt, src) ==
    Obj([key \in DOMAIN tgt.f \cup AssignedKeys(src) |->
            IF key \in AssignedKeys(src) THEN MergeKey(tgt, src, key) ELSE tgt.f[key]])

(***************************************************************************)
(* Documents: bounded sets of saved documents and of reducer actions       *)
(***************************************************************************)
MaxEdits == 2

MaxDispatch == 1

MaxReloads == 1

\* obj with path set to val (no change when a parent on the path is not a record)
RECURSIVE SetAt(_, _, _)
SetAt(val, path, new) ==
    IF path = <<>> THEN new
    ELSE IF ~IsRecord(val) \/ (Len(path) > 1 /\ Head(path) \notin DOMAIN val.f) THEN val
    ELSE Obj([key \in DOMAIN val.f \cup {Head(path)} |->
                IF key = Head(path) THEN SetAt(Get(val, key), Tail(path), new) ELSE val.f[key]])

\* obj with the property at path deleted
RECURSIVE RemoveAt(_, _)
RemoveAt(val, path) ==
    IF ~IsRecord(val) \/ Head(path) \notin DOMAIN val.f THEN val
    ELSE IF Len(path) = 1 THEN Obj([key \in DOMAIN val.f \ {Head(path)} |-> val.f[key]])
    ELSE Obj([key \in DOMAIN val.f |->
                IF key = Head(path) THEN RemoveAt(val.f[key], Tail(path)) ELSE val.f[key]])

RECURSIVE GetAt(_, _)
GetAt(val, path) == IF path = <<>> THEN val ELSE GetAt(Get(val, Head(path)), Tail(path))

\* the places of a ControlParams document that the saved documents vary
EditPaths ==
    { <<"showBackgroundOrbs">>, <<"silhouette">>, <<"backgroundOrbs">>,
      <<"silhouette", "backSilhouette">>,
      <<"silhouette", "backSilhouette", "strokeWidthMid">>,
      <<"progressiveBlur", "endBlur">> }

EditKinds == {"omit", "null", "prim", "obj"}

ApplyEdit(doc, path, kind) ==
    CASE kind = "omit" -> RemoveAt(doc, path)
      [] kind = "null" -> SetAt(doc, path, Null)
      [] kind = "prim" -> SetAt(doc, path, Prim("7"))
      [] kind = "obj"  -> SetAt(doc, path, Obj([legacy |-> Prim("1")]))

RECURSIVE DocsWithEdits(_, _)
DocsWithEdits(n, kinds) ==
    IF n = 0 THEN {DEFAULT_PARAMS}
    ELSE LET prev == DocsWithEdits(n - 1, kinds)
         IN  prev \cup {ApplyEdit(d, p, kd) : d \in prev, p \in EditPaths, kd \in kinds}

\* documents that are sub-documents of a valid ControlParams: fields omitted only
SubDocuments == DocsWithEdits(MaxEdits, {"omit"})

\* JSON documents of any shape, among them non-records in place of records
SavedDocs == DocsWithEdits(MaxEdits, EditKinds) \cup {Null, Prim("5"), Arr([idx \in {"0"} |-> Prim("1")]), Obj(EmptyFn)}

StorageStates ==
    {[st |-> s, doc |-> Null] : s \in {"none", "empty", "throws", "invalid"}}
        \cup {[st |-> "json", doc |-> d] : d \in SavedDocs}

(***************************************************************************)
(* JSON.stringify / JSON.parse of the persisted document                    *)
(***************************************************************************)
\* JSON.stringify followed by JSON.parse: properties whose value is undefined
\* are dropped from objects and become null in arrays
RECURSIVE Stringify(_)
Stringify(val) ==
    IF val.k = "obj"
    THEN Obj([key \in {kk \in DOMAIN val.f : val.f[kk].k # "undef"} |-> Stringify(val.f[key])])
    ELSE IF val.k = "arr"
    THEN Arr([key \in DOMAIN val.f |-> IF val.f[key].k = "undef" THEN Null ELSE Stringify(val.f[key])])
    ELSE val

(***************************************************************************)
(* loadInitialParams                                                       *)
(***************************************************************************)
\* TRUE when the try block reaches mergeParams
LoadMerges(sto) == sto.st = "json"


loadInitialParams(sto) ==
    IF LoadMerges(sto) THEN mergeParams(DEFAULT_PARAMS, sto.doc) ELSE DEFAULT_PARAMS

(***************************************************************************)
(* The actions a UI handler dispatches from the rendered snapshot           *)
(***************************************************************************)
\* updateSilLayer(layer, updates)
updateSilLayer(snapshot, layer, updates) ==
    Obj([silhouette |->
            Spread(Get(snapshot, "silhouette"),
                   Obj((layer :> Spread(GetAt(snapshot, <<"silhouette", layer>>), updates))))])

\* handleThemeChange(color)
handleThemeChange(snapshot, color) ==
    Obj([background |-> Spread(Get(snapshot, "background"), Obj([color |-> color])),
         silhouette |-> Spread(Get(snapshot, "silhouette"), Obj([color |-> color]))])

\* the handlers read params.silhouette[layer] and params.background
SnapshotUsable(snapshot) ==
    /\ IsRecord(Get(snapshot, "silhouette"))
    /\ IsRecord(GetAt(snapshot, <<"silhouette", "backSilhouette">>))
    /\ IsRecord(Get(snapshot, "background"))
    /\ IsRecord(Get(snapshot, "progressiveBlur"))

ReducerActions(snapshot) ==
    { Obj(EmptyFn),
      Obj([showBackgroundOrbs |-> Prim("false")]),
      Obj([stabilityApiKey |-> Undef, showForegroundOrbs |-> Prim("false")]),
      Obj([backgroundOrbs |-> Arr([idx \in {"0"} |-> Prim("bg-orb")])]),
      Obj([background |-> Obj([color |-> Undef])]),
      Obj([silhouette |-> Obj([backSilhouette |-> Obj([strokeWidth |-> Prim("9")])])]) }
    \cup (IF SnapshotUsable(snapshot)
          THEN { updateSilLayer(snapshot, "backSilhouette", Obj([strokeScale |-> Prim("2")])),
                 handleThemeChange(snapshot, Prim("'#000000'")),
                 Obj([progressiveBlur |->
                        Spread(Get(snapshot, "progressiveBlur"), Obj([enabled |-> Prim("true")]))]) }
          ELSE {})

(***************************************************************************)
(* App: mount, save effect, dispatch, reload                               *)
(***************************************************************************)
\* useReducer(paramsReducer, loadInitialParams())
LoadInitialParams ==
    /\ appPc = "init"
    /\ params' = loadInitialParams(storage)
    /\ IF LoadMerges(storage)
       THEN /\ target' = DEFAULT_PARAMS
            /\ source' = storage.doc
            /\ output' = mergeParams(DEFAULT_PARAMS, storage.doc)
       ELSE UNCHANGED <<target, source, output>>
    /\ appPc' = "loaded"
    /\ UNCHANGED <<storage, dispatches, reloads>>

\* useEffect(() => localStorage.setItem(KEY, JSON.stringify(params)), [params])
SaveParams ==
    /\ appPc \in {"loaded", "dirty"}
    /\ storage' = IF storage.st = "throws" THEN storage
                  ELSE [st |-> "json", doc |-> Stringify(params)]
    /\ appPc' = "ready"
    /\ UNCHANGED <<params, target, source, output, dispatches, reloads>>

\* setParams(action): paramsReducer(state, action) = mergeParams(state, action)
Dispatch ==
    /\ appPc = "ready"
    /\ dispatches < MaxDispatch
    /\ \E action \in ReducerActions(params) :
          /\ target' = params
          /\ source' = action
          /\ output' = mergeParams(params, action)
          /\ params' = mergeParams(params, action)
    /\ dispatches' = dispatches + 1
    /\ appPc' = "dirty"
    /\ UNCHANGED <<storage, reloads>>

\* the page is reloaded: the App is constructed again from storage
Reload ==
    /\ appPc = "ready"
    /\ reloads < MaxReloads
    /\ reloads' = reloads + 1
    /\ appPc' = "init"
    /\ UNCHANGED <<storage, params, target, source, output, dispatches>>

DfIdle ==
    /\ dfPc = "idle" /\ physicalW = 0 /\ physicalH = 0 /\ data = <<>> /\ dist = <<>>

OlIdle ==
    /\ olPc = "idle" /\ config = Null /\ logicalW = 0 /\ scale = 0 /\ mask = <<>>
    /\ chokeData = <<>> /\ geom = Null /\ distanceField = <<>>
    /\ i = 0 /\ cur = Null /\ outData = <<>> /\ layerAlpha = <<>>

AppIdle ==
    /\ appPc = "idle" /\ storage = Null /\ params = Null /\ target = Null /\ source = Null
    /\ output = Null /\ dispatches = 0 /\ reloads = 0

MkIdle ==
    /\ csmPc = "idle" /\ csm = Null /\ gsmPc = "idle" /\ gsm = Null

\* a null mask, and the bitmap a mask source made from a file (files are
\* numbered from 1 in the order they are picked)
NoMask == [from |-> "none", file |-> 0]

MaskOf(origin, file) == [from |-> origin, file |-> file]

UpIdle ==
    /\ uploads = <<>> /\ maskImage = NoMask /\ isProcessing = FALSE /\ image = 0

RnIdle ==
    /\ rnPc = "idle" /\ scene = Null /\ canvas = <<>> /\ stages = <<>> /\ rendered = <<>>

DicIdle ==
    /\ dicPc = "idle" /\ dic = Null

UiIdle ==
    /\ disp = Null /\ ptr = Null

InitApp ==
    /\ appPc = "init"
    /\ storage \in StorageStates
    /\ params = Null
    /\ target = Null /\ source = Null /\ output = Null
    /\ dispatches = 0 /\ reloads = 0
    /\ DfIdle /\ OlIdle /\ MkIdle /\ UpIdle /\ RnIdle /\ DicIdle /\ UiIdle

NextApp ==
    \/ (LoadInitialParams /\ UNCHANGED <<dfVars, olVars, mkVars, upVars, rnVars, dicVars, uiVars>>)
    \/ (SaveParams /\ UNCHANGED <<dfVars, olVars, mkVars, upVars, rnVars, dicVars, uiVars>>)
    \/ (Dispatch /\ UNCHANGED <<dfVars, olVars, mkVars, upVars, rnVars, dicVars, uiVars>>)
    \/ (Reload /\ UNCHANGED <<dfVars, olVars, mkVars, upVars, rnVars, dicVars, uiVars>>)

SpecApp == InitApp /\ [][NextApp]_vars

(***************************************************************************)
(* computeDistanceField.  The Float32Array holds multiples of 2^-23: a     *)
(* distance is modelled by the integer dist * 2^23, Infinity by Inf.       *)
(***************************************************************************)
MaxW == 5

MaxH == 3

MaxFg == 2

\* Infinity
Inf == 1073741824

\* const w1 = 1.0, in units of 2^-23
W1 == 8388608

\* const w2 = 1.41421356, in units of 2^-23: W2Int + a fraction in (0, 1/2)
W2Int == 11863283

\* the alpha threshold of the seed loop
SeedThreshold == 128

\* the spacing, in units of 2^-23, of the float32 values in the binade of s (s >= 2^23)
RECURSIVE Ulp(_, _)
Ulp(s, u) == IF s < 16777216 * u THEN u ELSE Ulp(s, 2 * u)

\* the float32 nearest to s + frac (ties to even), where frac is 0 when
\* hasFrac is FALSE and lies strictly between 0 and 1/2 otherwise
Fround(s, hasFrac) ==
    LET u == Ulp(s, 1)
        q == s \div u
        r == s % u
        half == u \div 2
    IN  IF u = 1 THEN s
        ELSE IF r > half \/ (r = half /\ (hasFrac \/ q % 2 = 1)) THEN (q + 1) * u
        ELSE q * u

\* dist[n] + w1 as it is stored back into the Float32Array
PlusW1(d) == IF d = Inf THEN Inf ELSE Fround(d + W1, FALSE)

\* dist[n] + w2 as it is stored back into the Float32Array
PlusW2(d) == IF d = Inf THEN Inf ELSE Fround(d + W2Int, TRUE)

Min2(a, b) == IF b < a THEN b ELSE a

\* the seed loop
SeedMutant(alpha) == [idx \in DOMAIN alpha |-> IF alpha[idx] >= SeedThreshold THEN 0 ELSE Inf]

Seed(alpha) == [idx \in DOMAIN alpha |-> IF alpha[idx] > SeedThreshold THEN 0 ELSE Inf]

\* body of the pass 1 loop for pixel idx: left, upper-left, up, upper-right
Relax1NoUpMutant(d, w, h, idx) ==
    LET x == idx % w
        y == idx \div w
        m0 == d[idx]
        m1 == IF x > 0 THEN Min2(m0, PlusW1(d[idx - 1])) ELSE m0
        m2 == IF x > 0 /\ y > 0 THEN Min2(m1, PlusW2(d[idx - w - 1])) ELSE m1
        m4 == IF x < w - 1 /\ y > 0 THEN Min2(m2, PlusW2(d[idx - w + 1])) ELSE m2
    IN  IF d[idx] = 0 THEN 0 ELSE m4

Relax1NoRightBoundMutant(d, w, h, idx) ==
    LET x == idx % w
        y == idx \div w
        m0 == d[idx]
        m1 == IF x > 0 THEN Min2(m0, PlusW1(d[idx - 1])) ELSE m0
        m2 == IF x > 0 /\ y > 0 THEN Min2(m1, PlusW2(d[idx - w - 1])) ELSE m1
        m3 == IF y > 0 THEN Min2(m2, PlusW1(d[idx - w])) ELSE m2
        m4 == IF y > 0 THEN Min2(m3, PlusW2(d[idx - w + 1])) ELSE m3
    IN  IF d[idx] = 0 THEN 0 ELSE m4

Relax1(d, w, h, idx) ==
    LET x == idx % w
        y == idx \div w
        m0 == d[idx]
        m1 == IF x > 0 THEN Min2(m0, PlusW1(d[idx - 1])) ELSE m0
        m2 == IF x > 0 /\ y > 0 THEN Min2(m1, PlusW2(d[idx - w - 1])) ELSE m1
        m3 == IF y > 0 THEN Min2(m2, PlusW1(d[idx - w])) ELSE m2
        m4 == IF x < w - 1 /\ y > 0 THEN Min2(m3, PlusW2(d[idx - w + 1])) ELSE m3
    IN  IF d[idx] = 0 THEN 0 ELSE m4

\* body of the pass 2 loop for pixel idx: right, lower-right, down, lower-left
Relax2NoLowerLeftMutant(d, w, h, idx) ==
    LET x == idx % w
        y == idx \div w
        m0 == d[idx]
        m1 == IF x < w - 1 THEN Min2(m0, PlusW1(d[idx + 1])) ELSE m0
        m2 == IF x < w - 1 /\ y < h - 1 THEN Min2(m1, PlusW2(d[idx + w + 1])) ELSE m1
        m3 == IF y < h - 1 THEN Min2(m2, PlusW1(d[idx + w])) ELSE m2
    IN  IF d[idx] = 0 THEN 0 ELSE m3

Relax2(d, w, h, idx) ==
    LET x == idx % w
        y == idx \div w
        m0 == d[idx]
        m1 == IF x < w - 1 THEN Min2(m0, PlusW1(d[idx + 1])) ELSE m0
        m2 == IF x < w - 1 /\ y < h - 1 THEN Min2(m1, PlusW2(d[idx + w + 1])) ELSE m1
        m3 == IF y < h - 1 THEN Min2(m2, PlusW1(d[idx + w])) ELSE m2
        m4 == IF x > 0 /\ y < h - 1 THEN Min2(m3, PlusW2(d[idx + w - 1])) ELSE m3
    IN  IF d[idx] = 0 THEN 0 ELSE m4

\* for y = 0..h-1, for x = 0..w-1: the pixels in ascending index order,
\* with the loop's "if (dist[idx] === 0) continue"
RECURSIVE Sweep1(_, _, _, _)
Sweep1(d, w, h, idx) ==
    IF idx = w * h THEN d
    ELSE IF d[idx] = 0 THEN Sweep1(d, w, h, idx + 1)
    ELSE Sweep1([d EXCEPT ![idx] = Relax1(d, w, h, idx)], w, h, idx + 1)

\* for y = h-1..0, for x = w-1..0: the pixels in descending index order
RECURSIVE Sweep2(_, _, _, _)
Sweep2(d, w, h, idx) ==
    IF idx < 0 THEN d
    ELSE IF d[idx] = 0 THEN Sweep2(d, w, h, idx - 1)
    ELSE Sweep2([d EXCEPT ![idx] = Relax2(d, w, h, idx)], w, h, idx - 1)

computeDistanceField(alpha, w, h) == Sweep2(Sweep1(Seed(alpha), w, h, 0), w, h, w * h - 1)

\* the subsets of S with at most n elements
RECURSIVE SubsetsUpTo(_, _)
SubsetsUpTo(S, n) ==
    IF n = 0 THEN {{}}
    ELSE LET prev == SubsetsUpTo(S, n - 1)
         IN  prev \cup {r \cup {e} : r \in prev, e \in S}

\* the alpha drawn for a foreground and for a background pixel of a mask
AlphaLevels == {<<255, 0>>, <<129, 128>>}

\* the masks of a w x h grid: few foreground pixels, or few background pixels
Masks(w, h) ==
    LET cells == 0 .. (w * h - 1)
        few == SubsetsUpTo(cells, MaxFg)
    IN  {[idx \in cells |-> IF idx \in fg THEN lv[1] ELSE lv[2]] : fg \in few, lv \in AlphaLevels}
        \cup {[idx \in cells |-> IF idx \in bg THEN lv[2] ELSE lv[1]] : bg \in few, lv \in AlphaLevels}

\* const dist = new Float32Array(physicalW * physicalH): all zero
InitDf ==
    /\ dfPc = "seed"
    /\ physicalW \in 1 .. MaxW
    /\ physicalH \in 1 .. MaxH
    /\ data \in Masks(physicalW, physicalH)
    /\ dist = [idx \in 0 .. (physicalW * physicalH - 1) |-> 0]
    /\ AppIdle /\ OlIdle /\ MkIdle /\ UpIdle /\ RnIdle /\ DicIdle /\ UiIdle

DfSeed ==
    /\ dfPc = "seed"
    /\ dist' = Seed(data)
    /\ dfPc' = "pass1"
    /\ UNCHANGED <<physicalW, physicalH, data>>

DfPass1 ==
    /\ dfPc = "pass1"
    /\ dist' = Sweep1(dist, physicalW, physicalH, 0)
    /\ dfPc' = "pass2"
    /\ UNCHANGED <<physicalW, physicalH, data>>

DfPass2 ==
    /\ dfPc = "pass2"
    /\ dist' = Sweep2(dist, physicalW, physicalH, physicalW * physicalH - 1)
    /\ dfPc' = "done"
    /\ UNCHANGED <<physicalW, physicalH, data>>

NextDf ==
    \/ (DfSeed /\ UNCHANGED <<appVars, olVars, mkVars, upVars, rnVars, dicVars, uiVars>>)
    \/ (DfPass1 /\ UNCHANGED <<appVars, olVars, mkVars, upVars, rnVars, dicVars, uiVars>>)
    \/ (DfPass2 /\ UNCHANGED <<appVars, olVars, mkVars, upVars, rnVars, dicVars, uiVars>>)

SpecDf == InitDf /\ [][NextDf]_vars

(***************************************************************************)
(* renderAccessoryLayer / createOutlineFromMask on one scanline.           *)
(* Widths, blurs and distances are exact rationals: at a pixel of a canvas *)
(* physicalW wide, a width or a blur is its numerator over physicalW and a *)
(* feather its numerator over 54 * physicalW^2.                            *)
(***************************************************************************)
\* a field that the configuration object does not have (undefined)
NoValue == -1000000

\* a || b for numbers
OrElse(a, b) == IF a = NoValue \/ a = 0 THEN b ELSE a

\* a ?? b
Coalesce(a, b) == IF a = NoValue THEN b ELSE a

\* Math.ceil(n / d) for d > 0
CeilDiv(n, d) == -((-n) \div d)

Max2(a, b) == IF a > b THEN a ELSE b

Max3(a, b, c) == Max2(a, Max2(b, c))

Abs(n) == IF n < 0 THEN -n ELSE n

RECURSIVE Gcd(_, _)
Gcd(a, b) == IF b = 0 THEN a ELSE Gcd(b, a % b)

\* floor(255 * m / d) and the remainder, for 0 <= m <= d, without forming 255 * m
RECURSIVE Times255Div(_, _, _, _, _)
Times255Div(m, d, bits, q, r) ==
    IF bits = 0 THEN <<q, r>>
    ELSE LET r2 == 2 * r + m
         IN  Times255Div(m, d, bits - 1, 2 * q + (r2 \div d), r2 % d)

\* the byte a Uint8ClampedArray stores for 255 * m / d (0 <= m <= d): nearest
\* integer, ties to even
ToUint8(m, d) ==
    LET qr == Times255Div(m, d, 8, 0, 0)
    IN  IF 2 * qr[2] > d THEN qr[1] + 1
        ELSE IF 2 * qr[2] = d THEN qr[1] + (qr[1] % 2)
        ELSE qr[1]

\* smoothStep(value, min, max) for (value - min) / (max - min) = n / d, d > 0:
\* the result x * x * (3 - 2 * x) as <<numerator, denominator>>
smoothStep(n, d) ==
    LET g == Gcd(IF n < 0 THEN -n ELSE n, d)
        p0 == n \div g
        q == d \div g
        p == IF p0 < 0 THEN 0 ELSE IF p0 > q THEN q ELSE p0
    IN  <<p * p * (3 * q - 2 * p), q * q * q>>

\* the arguments renderAccessoryLayer hands to createOutlineFromMask
OutlineArgs(cfg) ==
    [strokeWidthStart |-> cfg.strokeWidth,
     strokeWidthMid |-> OrElse(cfg.strokeWidthMid, cfg.strokeWidth),
     strokeWidthEnd |-> Coalesce(cfg.strokeWidthEnd, cfg.strokeWidth),
     strokeScale |-> OrElse(cfg.strokeScale, 1),
     blurStart |-> cfg.blurStart, blurMid |-> cfg.blurMid, blurEnd |-> cfg.blurEnd]

\* createOutlineFromMask up to the distance field: sizes, effective widths, padding
OutlineGeometry(cfg, lw, sc) ==
    LET a == OutlineArgs(cfg)
        effectiveStart == a.strokeWidthStart * a.strokeScale
        effectiveMid == a.strokeWidthMid * a.strokeScale
        effectiveEnd == a.strokeWidthEnd * a.strokeScale
        maxStroke == Max3(effectiveStart, effectiveMid, effectiveEnd)
        maxBlurRaw == Max3(a.blurStart, a.blurMid, a.blurEnd)
        paddingLogical == maxStroke + 20
                            + (IF maxBlurRaw > 0 THEN CeilDiv(maxBlurRaw * (27 + maxStroke), 54) ELSE 0)
        paddingPhysical == paddingLogical * sc
    IN  [physicalW |-> lw * sc,
         effectiveStart |-> effectiveStart, effectiveMid |-> effectiveMid,
         effectiveEnd |-> effectiveEnd,
         blurStart |-> a.blurStart, blurMid |-> a.blurMid, blurEnd |-> a.blurEnd,
         disabled |-> (effectiveStart <= 0 /\ effectiveMid <= 0 /\ effectiveEnd <= 0),
         paddingPhysical |-> paddingPhysical,
         paddedWPhysical |-> lw * sc + 2 * paddingPhysical]

\* paddedMaskSharp: the mask in the centre, its first and last pixel replicated
\* into the padding (clamp to edge)
PaddedMask(row, g) ==
    [x \in 0 .. (g.paddedWPhysical - 1) |->
        IF x < g.paddingPhysical THEN row[0]
        ELSE IF x >= g.paddingPhysical + g.physicalW THEN row[g.physicalW - 1]
        ELSE row[x - g.paddingPhysical]]

\* numerator over physicalW of t = clamp01(originalXPhysical / physicalW)
TNum(x, g) ==
    LET ox == x - g.paddingPhysical
    IN  IF ox < 0 THEN 0 ELSE IF ox > g.physicalW THEN g.physicalW ELSE ox

\* start + (mid - start) * localT for t < 0.5, mid + (end - mid) * localT
\* otherwise: the numerator over physicalW
Interpolate(start, mid, end, tNum, w) ==
    IF 2 * tNum < w
    THEN start * w + (mid - start) * 2 * tNum
    ELSE mid * w + (end - mid) * (2 * tNum - w)

\* featherRange = Math.max(1, currentBlur > 0 ? currentBlur * (0.5 + currentTargetWidth / 54) : 0):
\* the numerator over 54 * physicalW^2
FeatherRangeNoFloorMutant(blN, twN, w) ==
    IF blN > 0 THEN blN * (27 * w + twN) ELSE 0

FeatherRange(blN, twN, w) ==
    LET one == 54 * w * w
        adaptive == IF blN > 0 THEN blN * (27 * w + twN) ELSE 0
    IN  Max2(one, adaptive)

\* the body of the per-pixel loop for the pixel at column x whose distance is d
OutlinePixelInvertedMutant(x, d, g, sc) ==
    IF d = Inf \/ d = 0 THEN [skipped |-> TRUE, written |-> FALSE, t |-> 0,
                              currentTargetWidth |-> 0, featherRange |-> 0, alpha |-> 0]
    ELSE
        LET w == g.physicalW
            k == d \div W1
            tNum == TNum(x, g)
            twN == Interpolate(g.effectiveStart, g.effectiveMid, g.effectiveEnd, tNum, w)
            blN == Interpolate(g.blurStart, g.blurMid, g.blurEnd, tNum, w)
            frN == FeatherRange(blN, twN, w)
            beyond == 54 * w * w * k > sc * (54 * w * twN + frN)
            ss == smoothStep(54 * w * (k * w - sc * twN), sc * frN)
        IN  [skipped |-> FALSE, written |-> ~beyond, t |-> tNum,
             currentTargetWidth |-> twN, featherRange |-> frN,
             alpha |-> IF beyond THEN 0
                       ELSE IF k * w < sc * twN THEN ToUint8(ss[2] - ss[1], ss[2])
                       ELSE 255]

OutlinePixel(x, d, g, sc) ==
    IF d = Inf \/ d = 0 THEN [skipped |-> TRUE, written |-> FALSE, t |-> 0,
                              currentTargetWidth |-> 0, featherRange |-> 0, alpha |-> 0]
    ELSE
        LET w == g.physicalW
            k == d \div W1
            tNum == TNum(x, g)
            twN == Interpolate(g.effectiveStart, g.effectiveMid, g.effectiveEnd, tNum, w)
            blN == Interpolate(g.blurStart, g.blurMid, g.blurEnd, tNum, w)
            frN == FeatherRange(blN, twN, w)
            beyond == 54 * w * w * k > sc * (54 * w * twN + frN)
            ss == smoothStep(54 * w * (k * w - sc * twN), sc * frN)
        IN  [skipped |-> FALSE, written |-> ~beyond, t |-> tNum,
             currentTargetWidth |-> twN, featherRange |-> frN,
             alpha |-> IF beyond THEN 0
                       ELSE IF k * w > sc * twN THEN ToUint8(ss[2] - ss[1], ss[2])
                       ELSE 255]

\* destination-out of the thresholded choke, then the unpadded part of the result
ChokeAndUnpadNoCutMutant(out, choke, g) ==
    [x \in 0 .. (g.physicalW - 1) |-> out[x + g.paddingPhysical]]

ChokeAndUnpad(out, choke, g) ==
    [x \in 0 .. (g.physicalW - 1) |->
        IF choke[x + g.paddingPhysical] > 220 THEN 0 ELSE out[x + g.paddingPhysical]]

Transparent(w) == [x \in 0 .. (w - 1) |-> 0]

\* bcCtx.getImageData after blur(6 * scale px): the alpha fields of blurredChoke
ChokeFields(row, g) ==
    {Transparent(g.paddedWPhysical), PaddedMask(row, g),
     [x \in 0 .. (g.paddedWPhysical - 1) |-> 220],
     [x \in 0 .. (g.paddedWPhysical - 1) |-> 221]}

(***************************************************************************)
(* Inputs of the outline                                                   *)
(***************************************************************************)
LogicalWidths == {4}

Scales == {1, 2}

StartWidths == {-2, 0, 4}

MidWidths == {NoValue, 0, 2}

EndWidths == {NoValue, 0, 2}

StrokeScales == {0, 1, 2}

Blurs == {<<0, 0, 0>>, <<0, 6, 18>>, <<-6, 0, 18>>}

Configs ==
    {[enabled |-> en, strokeWidth |-> ws, strokeWidthMid |-> wm, strokeWidthEnd |-> we,
      strokeScale |-> ss, blurStart |-> bl[1], blurMid |-> bl[2], blurEnd |-> bl[3]] :
        en \in BOOLEAN, ws \in StartWidths, wm \in MidWidths, we \in EndWidths,
        ss \in StrokeScales, bl \in Blurs}

\* scanlines of the mask: foreground at the left edge, at the right edge
MaskRows(w) ==
    {[x \in 0 .. (w - 1) |-> IF x \in fg THEN 255 ELSE 0] : fg \in {{0}, {w - 1}}}

InitOutline ==
    /\ olPc = "start"
    /\ config \in Configs
    /\ logicalW \in LogicalWidths
    /\ scale \in Scales
    /\ mask \in MaskRows(logicalW * scale)
    /\ chokeData = <<>> /\ geom = Null /\ distanceField = <<>>
    /\ i = 0 /\ cur = Null /\ outData = <<>> /\ layerAlpha = <<>>
    /\ AppIdle /\ DfIdle /\ MkIdle /\ UpIdle /\ RnIdle /\ DicIdle /\ UiIdle

\* renderAccessoryLayer returns the blank layer when the layer is not enabled
OutlineDisabled ==
    /\ olPc = "start"
    /\ ~config.enabled
    /\ layerAlpha' = Transparent(logicalW * scale)
    /\ olPc' = "done"
    /\ UNCHANGED <<config, logicalW, scale, mask, chokeData, geom, distanceField, i, cur, outData>>

\* createOutlineFromMask returns the blank outlineCanvas when no effective width is positive
OutlineEarlyReturn ==
    /\ olPc = "start"
    /\ config.enabled
    /\ LET g == OutlineGeometry(config, logicalW, scale)
       IN  /\ g.disabled
           /\ geom' = g
    /\ layerAlpha' = Transparent(logicalW * scale)
    /\ olPc' = "done"
    /\ UNCHANGED <<config, logicalW, scale, mask, chokeData, distanceField, i, cur, outData>>

\* createOutlineFromMask up to the distance field: padding, smoothing blur,
\* and the seed loop of computeDistanceField.  The 0.5px smoothing blur leaves
\* every pixel of these scanlines on its side of the distance field's threshold.
OutlineStart ==
    /\ olPc = "start"
    /\ config.enabled
    /\ LET g == OutlineGeometry(config, logicalW, scale)
       IN  /\ ~g.disabled
           /\ geom' = g
           /\ distanceField' = Seed(PaddedMask(mask, g))
           /\ outData' = Transparent(g.paddedWPhysical)
    /\ i' = 0
    /\ olPc' = "pass1"
    /\ UNCHANGED <<config, logicalW, scale, mask, chokeData, cur, layerAlpha>>

\* computeDistanceField, pass 1, one pixel of the padded scanline
OutlinePass1 ==
    /\ olPc = "pass1"
    /\ distanceField' = [distanceField EXCEPT ![i] = Relax1(distanceField, geom.paddedWPhysical, 1, i)]
    /\ IF i = geom.paddedWPhysical - 1
       THEN olPc' = "pass2" /\ i' = i
       ELSE olPc' = olPc /\ i' = i + 1
    /\ UNCHANGED <<config, logicalW, scale, mask, chokeData, geom, cur, outData, layerAlpha>>

\* computeDistanceField, pass 2, one pixel of the padded scanline
OutlinePass2 ==
    /\ olPc = "pass2"
    /\ distanceField' = [distanceField EXCEPT ![i] = Relax2(distanceField, geom.paddedWPhysical, 1, i)]
    /\ IF i = 0
       THEN olPc' = "loop" /\ i' = i
       ELSE olPc' = olPc /\ i' = i - 1
    /\ UNCHANGED <<config, logicalW, scale, mask, chokeData, geom, cur, outData, layerAlpha>>

\* one iteration of for (let i = 0; i < distanceField.length; i++)
OutlineLoop ==
    /\ olPc = "loop"
    /\ i < geom.paddedWPhysical
    /\ LET px == OutlinePixel(i % geom.paddedWPhysical, distanceField[i], geom, scale)
       IN  /\ cur' = px
           /\ outData' = IF px.written THEN [outData EXCEPT ![i] = px.alpha] ELSE outData
    /\ i' = i + 1
    /\ UNCHANGED <<olPc, config, logicalW, scale, mask, chokeData, geom, distanceField, layerAlpha>>

\* after the loop: the choke cutout, the unpadding and the tint of the layer.
\* The choke is the padded mask after a 6px blur, computed by the canvas: it
\* reaches 220 nowhere, inside the mask, or (next to other rows of the mask)
\* on the whole scanline; 220 itself is not above the threshold.
OutlineFinish ==
    /\ olPc = "loop"
    /\ i = geom.paddedWPhysical
    /\ chokeData' \in ChokeFields(mask, geom)
    /\ layerAlpha' = ChokeAndUnpad(outData, chokeData', geom)
    /\ olPc' = "done"
    /\ UNCHANGED <<config, logicalW, scale, mask, geom, distanceField, i, cur, outData>>

NextOutline ==
    \/ (OutlineDisabled /\ UNCHANGED <<appVars, dfVars, mkVars, upVars, rnVars, dicVars, uiVars>>)
    \/ (OutlineEarlyReturn /\ UNCHANGED <<appVars, dfVars, mkVars, upVars, rnVars, dicVars, uiVars>>)
    \/ (OutlineStart /\ UNCHANGED <<appVars, dfVars, mkVars, upVars, rnVars, dicVars, uiVars>>)
    \/ (OutlinePass1 /\ UNCHANGED <<appVars, dfVars, mkVars, upVars, rnVars, dicVars, uiVars>>)
    \/ (OutlinePass2 /\ UNCHANGED <<appVars, dfVars, mkVars, upVars, rnVars, dicVars, uiVars>>)
    \/ (OutlineLoop /\ UNCHANGED <<appVars, dfVars, mkVars, upVars, rnVars, dicVars, uiVars>>)
    \/ (OutlineFinish /\ UNCHANGED <<appVars, dfVars, mkVars, upVars, rnVars, dicVars, uiVars>>)

SpecOutline == InitOutline /\ [][NextOutline]_vars

(***************************************************************************)
(* createSimplifiedMask: the bounding-box centre of the raw mask.  The     *)
(* scale is the rational n / d; a centre coordinate is <<numerator,        *)
(* denominator>>.                                                          *)
(***************************************************************************)
MaxLogicalW == 3

MaxLit == 2

LogicalHeights == {1, 2}

CsmScales == {[n |-> 1, d |-> 2], [n |-> 1, d |-> 1], [n |-> 3, d |-> 2], [n |-> 2, d |-> 1]}

\* the alpha of a mask pixel and of any other pixel in a raw mask
CsmAlphaLevels == {<<21, 20>>, <<255, 0>>}

\* Math.ceil(logical * scale)
PhysicalSize(logical, sc) == CeilDiv(logical * sc.n, sc.d)

\* if (fData[i + 3] > 20)
IsMaskPixelMutant(alpha) == alpha >= 20

IsMaskPixel(alpha) == alpha > 20

\* the loop over fData from pixel idx on: minX, maxX, minY, maxY, hasPixels
RECURSIVE ScanBox(_, _, _, _)
ScanBox(fData, w, idx, box) ==
    IF idx \notin DOMAIN fData THEN box
    ELSE IF ~IsMaskPixel(fData[idx]) THEN ScanBox(fData, w, idx + 1, box)
    ELSE LET x == idx % w
             y == idx \div w
         IN  ScanBox(fData, w, idx + 1,
                     [minX |-> IF x < box.minX THEN x ELSE box.minX,
                      maxX |-> IF x > box.maxX THEN x ELSE box.maxX,
                      minY |-> IF y < box.minY THEN y ELSE box.minY,
                      maxY |-> IF y > box.maxY THEN y ELSE box.maxY,
                      hasPixels |-> TRUE])

\* const center = hasPixels ? {((minX + maxX) / 2) / scale, ...} : {logicalW / 2, logicalH / 2}
CsmCenter(box, lw, lh, sc) ==
    IF box.hasPixels
    THEN [x |-> <<(box.minX + box.maxX) * sc.d, 2 * sc.n>>,
          y |-> <<(box.minY + box.maxY) * sc.d, 2 * sc.n>>]
    ELSE [x |-> <<lw, 2>>, y |-> <<lh, 2>>]

\* the raw masks of a w x h canvas: at most MaxLit pixels drawn
RawMasks(w, h) ==
    LET cells == 0 .. (w * h - 1)
    IN  {[idx \in cells |-> IF idx \in lit THEN lv[1] ELSE lv[2]] :
            lit \in SubsetsUpTo(cells, MaxLit), lv \in CsmAlphaLevels}

InitCsm ==
    /\ csmPc = "scan"
    /\ \E lw \in 1 .. MaxLogicalW, lh \in LogicalHeights, sc \in CsmScales :
          LET pw == PhysicalSize(lw, sc)
              ph == PhysicalSize(lh, sc)
          IN  \E fData \in RawMasks(pw, ph) :
                  csm = [logicalW |-> lw, logicalH |-> lh, scale |-> sc,
                         physicalW |-> pw, physicalH |-> ph, fData |-> fData,
                         box |-> [minX |-> pw, maxX |-> 0, minY |-> ph, maxY |-> 0,
                                  hasPixels |-> FALSE],
                         center |-> [x |-> <<0, 1>>, y |-> <<0, 1>>]]
    /\ gsmPc = "idle" /\ gsm = Null
    /\ AppIdle /\ DfIdle /\ OlIdle /\ UpIdle /\ RnIdle /\ DicIdle /\ UiIdle

\* for (let i = 0; i < fData.length; i += 4)
CsmScan ==
    /\ csmPc = "scan"
    /\ csm' = [csm EXCEPT !.box = ScanBox(csm.fData, csm.physicalW, 0, csm.box)]
    /\ csmPc' = "center"
    /\ UNCHANGED <<gsmPc, gsm>>

\* the centre, scaled back to logical coordinates, and the return
CsmReturn ==
    /\ csmPc = "center"
    /\ csm' = [csm EXCEPT !.center = CsmCenter(csm.box, csm.logicalW, csm.logicalH, csm.scale)]
    /\ csmPc' = "done"
    /\ UNCHANGED <<gsmPc, gsm>>

NextCsm ==
    \/ (CsmScan /\ UNCHANGED <<appVars, dfVars, olVars, upVars, rnVars, dicVars, uiVars>>)
    \/ (CsmReturn /\ UNCHANGED <<appVars, dfVars, olVars, upVars, rnVars, dicVars, uiVars>>)

SpecCsm == InitCsm /\ [][NextCsm]_vars

(***************************************************************************)
(* generateSoftMask: the onload handler up to the end of the threshold     *)
(* step.  A pixel is a record [r, g, b, a] of bytes.                       *)
(***************************************************************************)
MaxImgW == 2

ImgHeights == {1, 2}

\* the pixels an uploaded image is made of
Palette ==
    {[r |-> 0, g |-> 0, b |-> 0, a |-> 255], [r |-> 100, g |-> 0, b |-> 0, a |-> 255],
     [r |-> 40, g |-> 10, b |-> 0, a |-> 248], [r |-> 0, g |-> 0, b |-> 70, a |-> 51],
     [r |-> 0, g |-> 0, b |-> 0, a |-> 50]}

\* const corners = [0, (width - 1) * 4, (width * (height - 1)) * 4, (width * height - 1) * 4],
\* as pixel indices
Corners(w, h) == <<0, w - 1, w * (h - 1), w * h - 1>>

\* the sum of one channel over the four corner reads
CornerSum(px, w, h, ch) ==
    LET c == Corners(w, h)
    IN  px[c[1]][ch] + px[c[2]][ch] + px[c[3]][ch] + px[c[4]][ch]

\* (cornerAlphaSum / 4) < 250
IsTransparentBackground(cornerAlphaSum) == cornerAlphaSum < 4 * 250

\* PATH A: mData[i+3] = alpha > 50 ? 255 : 0
AlphaCut(p) == [r |-> 255, g |-> 255, b |-> 255, a |-> IF p.a > 50 THEN 255 ELSE 0]

\* PATH B: dist = max(|r - br|, |g - bg|, |b - bb|) with br = sum / 4, times 4;
\* alpha = dist < threshold ? 0 : 255
ColorKeyInclusiveMutant(p, br4, bg4, bb4) ==
    LET dist4 == Max3(Abs(4 * p.r - br4), Abs(4 * p.g - bg4), Abs(4 * p.b - bb4))
    IN  [r |-> 255, g |-> 255, b |-> 255, a |-> IF dist4 <= 4 * 35 THEN 0 ELSE 255]

ColorKey(p, br4, bg4, bb4) ==
    LET dist4 == Max3(Abs(4 * p.r - br4), Abs(4 * p.g - bg4), Abs(4 * p.b - bb4))
    IN  [r |-> 255, g |-> 255, b |-> 255, a |-> IF dist4 < 4 * 35 THEN 0 ELSE 255]

InitGsm ==
    /\ gsmPc = "corners"
    /\ \E w \in 1 .. MaxImgW, h \in ImgHeights :
          \E px \in [0 .. (w * h - 1) -> Palette] :
              gsm = [width |-> w, height |-> h, data |-> px, cornerAlphaSum |-> 0,
                     isTransparentBackground |-> FALSE, mData |-> <<>>]
    /\ csmPc = "idle" /\ csm = Null
    /\ AppIdle /\ DfIdle /\ OlIdle /\ UpIdle /\ RnIdle /\ DicIdle /\ UiIdle

\* 1. Detect if image has transparent background
GsmCorners ==
    /\ gsmPc = "corners"
    /\ LET sum == CornerSum(gsm.data, gsm.width, gsm.height, "a")
       IN  gsm' = [gsm EXCEPT !.cornerAlphaSum = sum,
                              !.isTransparentBackground = IsTransparentBackground(sum)]
    /\ gsmPc' = "threshold"
    /\ UNCHANGED <<csmPc, csm>>

\* PATH A: Use existing Alpha Channel
GsmAlphaPath ==
    /\ gsmPc = "threshold"
    /\ gsm.isTransparentBackground
    /\ gsm' = [gsm EXCEPT !.mData = [idx \in DOMAIN gsm.data |-> AlphaCut(gsm.data[idx])]]
    /\ gsmPc' = "done"
    /\ UNCHANGED <<csmPc, csm>>

\* PATH B: Color Keying
GsmColorPath ==
    /\ gsmPc = "threshold"
    /\ ~gsm.isTransparentBackground
    /\ LET br4 == CornerSum(gsm.data, gsm.width, gsm.height, "r")
           bg4 == CornerSum(gsm.data, gsm.width, gsm.height, "g")
           bb4 == CornerSum(gsm.data, gsm.width, gsm.height, "b")
       IN  gsm' = [gsm EXCEPT !.mData = [idx \in DOMAIN gsm.data |->
                                            ColorKey(gsm.data[idx], br4, bg4, bb4)]]
    /\ gsmPc' = "done"
    /\ UNCHANGED <<csmPc, csm>>

NextGsm ==
    \/ (GsmCorners /\ UNCHANGED <<appVars, dfVars, olVars, upVars, rnVars, dicVars, uiVars>>)
    \/ (GsmAlphaPath /\ UNCHANGED <<appVars, dfVars, olVars, upVars, rnVars, dicVars, uiVars>>)
    \/ (GsmColorPath /\ UNCHANGED <<appVars, dfVars, olVars, upVars, rnVars, dicVars, uiVars>>)

SpecGsm == InitGsm /\ [][NextGsm]_vars

(***************************************************************************)
(* handleFileChange: the upload flow, with removeBackgroundSD3 and         *)
(* generateSoftMask as the promises it awaits.  Uploads started while an   *)
(* earlier one is still awaiting interleave.                               *)
(***************************************************************************)
MaxUploads == 2

\* how the fetch of removeBackgroundSD3 can settle
FetchResults == {"networkError", "non2xx", "ok"}

\* how response.blob() and createImageBitmap(blob) can settle
BodyResults == {"blobError", "undecodable", "decoded"}

\* how the Image of generateSoftMask can settle, and how its onload handler can end
LoadResults == {"onerror", "onload"}

ProcessResults == {"threw", "completed"}

\* FileReader.readAsDataURL: the error or the load event
ReadResults == {"onerror", "onload"}

\* removeBackgroundSD3 after its fetch settled: "null" when it returns null
\* (from the catch or from the response.ok test), "body" when it goes on to read
\* the body
Sd3AfterFetchNoStatusTestMutant(fetchResult) ==
    IF fetchResult = "networkError" THEN "null" ELSE "body"

Sd3AfterFetch(fetchResult) ==
    IF fetchResult = "networkError" THEN "null"
    ELSE IF fetchResult = "non2xx" THEN "null"
    ELSE "body"

\* removeBackgroundSD3 after the body settled: the bitmap, or null from the catch
Sd3AfterBody(bodyResult) == IF bodyResult = "decoded" THEN "mask" ELSE "null"

\* if (!mask) of handleFileChange
NeedsLocalAlwaysMutant(m) == TRUE

NeedsLocal(m) == m = NoMask

\* the locals of one call of handleFileChange
NewUpload(file, key) ==
    [pc |-> IF key THEN "sd3Fetch" ELSE "local",
     file |-> file, hasKey |-> key, mask |-> NoMask,
     sd3 |-> IF key THEN "pending" ELSE "notCalled", sd3File |-> IF key THEN file ELSE 0,
     fetchResult |-> "none", bodyResult |-> "none", remoteCalls |-> IF key THEN 1 ELSE 0,
     soft |-> "notCalled", softFile |-> 0, loadResult |-> "none",
     processResult |-> "none", localCalls |-> 0, maskSet |-> FALSE,
     readResult |-> "none", imgResult |-> "none"]

\* the Image handleFileChange creates decodes the file's bytes, as the Image
\* of generateSoftMask did when it was called for the upload
DecodeResults(up) == IF up.loadResult = "none" THEN LoadResults ELSE {up.loadResult}

InitUpload ==
    /\ uploads = <<>>
    /\ maskImage = NoMask
    /\ isProcessing = FALSE
    /\ image = 0
    /\ AppIdle /\ DfIdle /\ OlIdle /\ MkIdle /\ RnIdle /\ DicIdle /\ UiIdle

\* handleFileChange(file), for a file just picked, up to its first await:
\* setIsProcessing(true),
\* setMaskImage(null), and the call of removeBackgroundSD3 when
\* params.stabilityApiKey is set
HandleFileChange ==
    /\ Len(uploads) < MaxUploads
    /\ \E key \in BOOLEAN :
          uploads' = Append(uploads, NewUpload(Len(uploads) + 1, key))
    /\ isProcessing' = TRUE
    /\ maskImage' = NoMask
    /\ UNCHANGED image

\* removeBackgroundSD3: the fetch settles
Sd3Fetch(u) ==
    /\ uploads[u].pc = "sd3Fetch"
    /\ \E res \in FetchResults :
          uploads' = [uploads EXCEPT ![u] =
              IF Sd3AfterFetch(res) = "null"
              THEN [@ EXCEPT !.fetchResult = res, !.sd3 = "null", !.pc = "afterSd3"]
              ELSE [@ EXCEPT !.fetchResult = res, !.pc = "sd3Body"]]
    /\ UNCHANGED <<maskImage, isProcessing, image>>

\* removeBackgroundSD3: response.blob() and createImageBitmap(blob) settle
Sd3Body(u) ==
    /\ uploads[u].pc = "sd3Body"
    /\ \E res \in BodyResults :
          uploads' = [uploads EXCEPT ![u] =
              [@ EXCEPT !.bodyResult = res, !.sd3 = Sd3AfterBody(res), !.pc = "afterSd3"]]
    /\ UNCHANGED <<maskImage, isProcessing, image>>

\* handleFileChange resumes after await removeBackgroundSD3(...)
AfterSd3(u) ==
    /\ uploads[u].pc = "afterSd3"
    /\ LET m == IF uploads[u].sd3 = "mask" THEN MaskOf("remote", uploads[u].sd3File) ELSE NoMask
       IN  uploads' = [uploads EXCEPT ![u] =
               [@ EXCEPT !.mask = m, !.pc = IF NeedsLocal(m) THEN "local" ELSE "setMask"]]
    /\ UNCHANGED <<maskImage, isProcessing, image>>

\* 2. Fallback to Local Soft Mask: generateSoftMask(file) is called and awaited
LocalStart(u) ==
    /\ uploads[u].pc = "local"
    /\ uploads' = [uploads EXCEPT ![u] =
           [@ EXCEPT !.soft = "pending", !.softFile = uploads[u].file,
                     !.localCalls = @ + 1, !.pc = "softLoad"]]
    /\ UNCHANGED <<maskImage, isProcessing, image>>

\* generateSoftMask: the Image fires onerror (resolve(null)) or onload
SoftLoad(u) ==
    /\ uploads[u].pc = "softLoad"
    /\ \E res \in LoadResults :
          uploads' = [uploads EXCEPT ![u] =
              IF res = "onerror"
              THEN [@ EXCEPT !.loadResult = res, !.soft = "null", !.pc = "afterSoft"]
              ELSE [@ EXCEPT !.loadResult = res, !.pc = "softProcess"]]
    /\ UNCHANGED <<maskImage, isProcessing, image>>

\* generateSoftMask: the async onload handler runs.  It either reaches
\* resolve(bitmap), or throws (getImageData, createImageBitmap): the handler's
\* own promise rejects, resolve is never called and the promise handleFileChange
\* awaits stays pending.
SoftProcess(u) ==
    /\ uploads[u].pc = "softProcess"
    /\ \E res \in ProcessResults :
          uploads' = [uploads EXCEPT ![u] =
              IF res = "completed"
              THEN [@ EXCEPT !.processResult = res, !.soft = "mask", !.pc = "afterSoft"]
              ELSE [@ EXCEPT !.processResult = res, !.pc = "awaiting"]]
    /\ UNCHANGED <<maskImage, isProcessing, image>>

\* handleFileChange resumes after await generateSoftMask(file)
AfterSoft(u) ==
    /\ uploads[u].pc = "afterSoft"
    /\ uploads' = [uploads EXCEPT ![u] =
           [@ EXCEPT !.mask = IF uploads[u].soft = "mask"
                               THEN MaskOf("local", uploads[u].softFile) ELSE NoMask,
                     !.pc = "setMask"]]
    /\ UNCHANGED <<maskImage, isProcessing, image>>

\* setMaskImage(mask), and the FileReader is started
SetMaskImage(u) ==
    /\ uploads[u].pc = "setMask"
    /\ maskImage' = uploads[u].mask
    /\ uploads' = [uploads EXCEPT ![u] = [@ EXCEPT !.maskSet = TRUE, !.pc = "reader"]]
    /\ UNCHANGED <<isProcessing, image>>

\* 3. reader.readAsDataURL(file) settles: reader.onload creates the Image and
\* sets its src; no reader.onerror handler is installed
ReaderSettled(u) ==
    /\ uploads[u].pc = "reader"
    /\ \E res \in ReadResults :
          uploads' = [uploads EXCEPT ![u] =
              [@ EXCEPT !.readResult = res, !.pc = IF res = "onload" THEN "decode" ELSE "readFailed"]]
    /\ UNCHANGED <<maskImage, isProcessing, image>>

\* the Image of the upload settles: img.onload runs setImage(img) and
\* setIsProcessing(false); no img.onerror handler is installed
ImageLoaded(u) ==
    /\ uploads[u].pc = "decode"
    /\ \E res \in DecodeResults(uploads[u]) :
          IF res = "onload"
          THEN /\ image' = uploads[u].file
               /\ isProcessing' = FALSE
               /\ uploads' = [uploads EXCEPT ![u] = [@ EXCEPT !.imgResult = res, !.pc = "done"]]
          ELSE /\ uploads' = [uploads EXCEPT ![u] = [@ EXCEPT !.imgResult = res, !.pc = "decodeFailed"]]
               /\ UNCHANGED <<isProcessing, image>>
    /\ UNCHANGED maskImage

NextUpload ==
    \/ (HandleFileChange /\ UNCHANGED <<appVars, dfVars, olVars, mkVars, rnVars, dicVars, uiVars>>)
    \/ (\E u \in DOMAIN uploads : Sd3Fetch(u) /\ UNCHANGED <<appVars, dfVars, olVars, mkVars, rnVars, dicVars, uiVars>>)
    \/ (\E u \in DOMAIN uploads : Sd3Body(u) /\ UNCHANGED <<appVars, dfVars, olVars, mkVars, rnVars, dicVars, uiVars>>)
    \/ (\E u \in DOMAIN uploads : AfterSd3(u) /\ UNCHANGED <<appVars, dfVars, olVars, mkVars, rnVars, dicVars, uiVars>>)
    \/ (\E u \in DOMAIN uploads : LocalStart(u) /\ UNCHANGED <<appVars, dfVars, olVars, mkVars, rnVars, dicVars, uiVars>>)
    \/ (\E u \in DOMAIN uploads : SoftLoad(u) /\ UNCHANGED <<appVars, dfVars, olVars, mkVars, rnVars, dicVars, uiVars>>)
    \/ (\E u \in DOMAIN uploads : SoftProcess(u) /\ UNCHANGED <<appVars, dfVars, olVars, mkVars, rnVars, dicVars, uiVars>>)
    \/ (\E u \in DOMAIN uploads : AfterSoft(u) /\ UNCHANGED <<appVars, dfVars, olVars, mkVars, rnVars, dicVars, uiVars>>)
    \/ (\E u \in DOMAIN uploads : SetMaskImage(u) /\ UNCHANGED <<appVars, dfVars, olVars, mkVars, rnVars, dicVars, uiVars>>)
    \/ (\E u \in DOMAIN uploads : ReaderSettled(u) /\ UNCHANGED <<appVars, dfVars, olVars, mkVars, rnVars, dicVars, uiVars>>)
    \/ (\E u \in DOMAIN uploads : ImageLoaded(u) /\ UNCHANGED <<appVars, dfVars, olVars, mkVars, rnVars, dicVars, uiVars>>)

SpecUpload == InitUpload /\ [][NextUpload]_vars

\* a continuation or an event handler of an upload that can run
UploadStep(u) ==
    \/ Sd3Fetch(u) \/ Sd3Body(u) \/ AfterSd3(u)
    \/ LocalStart(u) \/ SoftLoad(u) \/ SoftProcess(u) \/ AfterSoft(u)
    \/ SetMaskImage(u) \/ ReaderSettled(u) \/ ImageLoaded(u)

\* the event loop: every request, read and decode settles, and every
\* continuation and handler that is ready runs
UploadFairness ==
    \A u \in 1 .. MaxUploads :
        WF_vars(u \in DOMAIN uploads /\ UploadStep(u)
                    /\ UNCHANGED <<appVars, dfVars, olVars, mkVars, rnVars, dicVars, uiVars>>)

SpecUploadFair == InitUpload /\ [][NextUpload]_vars /\ UploadFairness

(***************************************************************************)
(* renderAuraScene.  A canvas is the sequence of drawing operations since  *)
(* it was last cleared; an operation that draws another canvas carries     *)
(* that canvas in src.  Positions are in tenths; an opacity is the         *)
(* rational <<numerator, denominator>>.                                    *)
(***************************************************************************)
MaxRenders == 2

\* a GradientStop of the parameters
GradientStop(position, color) == [position |-> position, color |-> color]

\* gradient.addColorStop(position, color), with the opacity of the colour
ColorStop(position, color, opacity) == [position |-> position, color |-> color, opacity |-> opacity]

Opaque == <<1, 1>>

NoFill == [kind |-> "none", color |-> "", colorStops |-> <<>>]

ColorFill(color) == [kind |-> "color", color |-> color, colorStops |-> <<>>]

GradientFill(type, colorStops) == [kind |-> type, color |-> "", colorStops |-> colorStops]

\* one drawing operation: the stage that issued it, the call, the image drawn,
\* the blur filter in tenths of a pixel, the fill style and the canvas drawn
DrawOp(stage, op, img, blur, fill, src) ==
    [stage |-> stage, op |-> op, image |-> img, blur |-> blur, fill |-> fill, src |-> src]

\* ctx.clearRect(0, 0, logicalWidth, logicalHeight) on a target of that size
ClearRectNothingMutant(cv) == cv

ClearRect(cv) == <<>>

\* Array.prototype.sort on a copy: stop goes behind the stops already placed
\* whose position is not larger (the sort is stable)
InsertStop(sorted, stop) ==
    LET k == Cardinality({j \in DOMAIN sorted : sorted[j].position <= stop.position})
    IN  SubSeq(sorted, 1, k) \o <<stop>> \o SubSeq(sorted, k + 1, Len(sorted))

RECURSIVE SortFrom(_, _, _)
SortFrom(stops, k, sorted) ==
    IF k > Len(stops) THEN sorted ELSE SortFrom(stops, k + 1, InsertStop(sorted, stops[k]))

\* const sortedStops = [...stops].sort((a, b) => a.position - b.position)
sortedStopsUnsortedMutant(stops) == stops

sortedStops(stops) == SortFrom(stops, 1, <<>>)

\* sortedStops.forEach(stop => gradient.addColorStop(stop.position, stop.color))
AddColorStops(stops) == [j \in DOMAIN stops |-> ColorStop(stops[j].position, stops[j].color, Opaque)]

\* createGradient(ctx, width, height, stops, type): the gradient it returns and
\* what the stops array holds after the call
createGradientInPlaceMutant(stops, type) ==
    [gradient |-> GradientFill(type, AddColorStops(sortedStops(stops))), stops |-> sortedStops(stops)]

createGradient(stops, type) ==
    [gradient |-> GradientFill(type, AddColorStops(sortedStops(stops))), stops |-> stops]

\* renderOrb(ctx, orb, ...): the operation drawn on ctx and the orb after the call
renderOrb(stage, orb) ==
    [drawn |-> DrawOp(stage, "orb", "", 0,
                      IF orb.type = "radial"
                      THEN GradientFill("radial", AddColorStops(sortedStops(orb.stops)))
                      ELSE ColorFill(orb.color),
                      <<>>),
     orb |-> orb]

\* orbs.forEach(orb => renderOrb(ctx, orb, ...)): the operations drawn
RenderOrbs(stage, orbs) == [j \in DOMAIN orbs |-> renderOrb(stage, orbs[j]).drawn]

\* the orbs array after the forEach
OrbsAfter(stage, orbs) == [j \in DOMAIN orbs |-> renderOrb(stage, orbs[j]).orb]

\* const startOp = startBlur / maxBlur (and endOp), as handed to addColorStop
\* inside `rgba(0,0,0,${op})`; the number is formatted and parsed back unchanged
BlurOpacityOfEndMutant(blur, startBlur, endBlur) == <<blur, endBlur>>

BlurOpacity(blur, startBlur, endBlur) == <<blur, Max2(startBlur, endBlur)>>

\* the stroke layer is drawn with a distance field: enabled, and some width positive
LayerHasOutline(layer) == layer.enabled /\ layer.strokeWidth > 0

\* directional blur is applied: enabled and Math.max(startBlur, endBlur) > 0
BlurAppliesWhenEnabledMutant(pb) == pb.enabled

BlurApplies(pb) == pb.enabled /\ Max2(pb.startBlur, pb.endBlur) > 0

\* the stages one call of renderAuraScene executes, in statement order
RenderPlanSilhouetteFirstMutant(p) ==
    <<"background">>
        \o (IF p.showBackgroundOrbs THEN <<"backgroundOrbs">> ELSE <<>>)
        \o <<"mask">>
        \o <<"silhouette">>
        \o (IF LayerHasOutline(p.silhouette.backSilhouette) THEN <<"distanceField">> ELSE <<>>)
        \o <<"backSilhouette">>
        \o (IF p.showForegroundOrbs /\ Len(p.foregroundOrbs) > 0 THEN <<"foregroundOrbs">> ELSE <<>>)
        \o (IF BlurApplies(p.progressiveBlur) THEN <<"directionalBlur">> ELSE <<>>)
        \o <<"return">>

RenderPlan(p) ==
    <<"background">>
        \o (IF p.showBackgroundOrbs THEN <<"backgroundOrbs">> ELSE <<>>)
        \o <<"mask">>
        \o (IF LayerHasOutline(p.silhouette.backSilhouette) THEN <<"distanceField">> ELSE <<>>)
        \o <<"backSilhouette">>
        \o <<"silhouette">>
        \o (IF p.showForegroundOrbs /\ Len(p.foregroundOrbs) > 0 THEN <<"foregroundOrbs">> ELSE <<>>)
        \o (IF BlurApplies(p.progressiveBlur) THEN <<"directionalBlur">> ELSE <<>>)
        \o <<"return">>

\* the stage that follows the stages executed so far
StageAfter(p, done) == RenderPlan(p)[Len(done) + 1]

\* gradient stops with pairwise distinct positions, in three orders
StopLow == GradientStop(0, "#ff0000")

StopMid == GradientStop(5, "#00ff00")

StopHigh == GradientStop(10, "#0000ff")

StopOrders == {<<StopLow, StopMid, StopHigh>>, <<StopHigh, StopMid, StopLow>>, <<StopMid, StopHigh, StopLow>>}

RadialOrb == [type |-> "radial", color |-> "#ffffff", stops |-> <<StopHigh, StopLow>>]

SolidOrb == [type |-> "solid", color |-> "#ffaa00", stops |-> <<StopMid, StopLow>>]

\* params.silhouette.backSilhouette: disabled, enabled without width, enabled stroke
BackLayers ==
    {[enabled |-> e, strokeWidth |-> w, mode |-> "gradient", color |-> "#222222",
      gradientStops |-> <<StopHigh, StopLow>>] : e \in BOOLEAN, w \in {0, 4}}
        \ {[enabled |-> FALSE, strokeWidth |-> 4, mode |-> "gradient", color |-> "#222222",
            gradientStops |-> <<StopHigh, StopLow>>]}

\* params.progressiveBlur: startBlur and endBlur in pixels
BlurSettings ==
    {[enabled |-> FALSE, startBlur |-> 0, endBlur |-> 20]}
        \cup {[enabled |-> TRUE, startBlur |-> b[1], endBlur |-> b[2]] :
                 b \in {<<0, 0>>, <<0, 20>>, <<20, 5>>, <<5, 5>>, <<-5, 10>>}}

Silhouettes ==
    {[mode |-> "solid", color |-> "#000000", gradientStops |-> <<StopLow, StopMid, StopHigh>>,
      gradientType |-> "linear", backSilhouette |-> l] : l \in BackLayers}
        \cup {[mode |-> "gradient", color |-> "#000000", gradientStops |-> s,
               gradientType |-> "linear", backSilhouette |-> l] : s \in StopOrders, l \in BackLayers}

ParamsSet ==
    [background : {[color |-> "#101010"]},
     showBackgroundOrbs : BOOLEAN,
     backgroundOrbs : {<<RadialOrb, SolidOrb>>},
     silhouette : Silhouettes,
     showForegroundOrbs : BOOLEAN,
     foregroundOrbs : {<<>>, <<RadialOrb>>},
     progressiveBlur : BlurSettings]

\* the arguments of one call and the locals of renderAuraScene
NewScene(img, msk, p) ==
    [image |-> img, maskImage |-> msk, params |-> p,
     called |-> [image |-> img, maskImage |-> msk, params |-> p],
     rawMask |-> "", outline |-> ""]

\* parameter changes of the panel between two renders
Permute(stops) == [j \in DOMAIN stops |-> stops[Len(stops) + 1 - j]]

ParamEdits(p) ==
    {p,
     [p EXCEPT !.silhouette.gradientStops = Permute(p.silhouette.gradientStops)],
     [p EXCEPT !.showBackgroundOrbs = ~p.showBackgroundOrbs],
     [p EXCEPT !.showForegroundOrbs = ~p.showForegroundOrbs,
               !.progressiveBlur.enabled = ~p.progressiveBlur.enabled],
     [p EXCEPT !.progressiveBlur.startBlur = p.progressiveBlur.endBlur,
               !.progressiveBlur.endBlur = p.progressiveBlur.startBlur]}

InitRender ==
    /\ AppIdle /\ DfIdle /\ OlIdle /\ MkIdle /\ UpIdle /\ DicIdle /\ UiIdle
    /\ rnPc = "background"
    /\ scene \in {NewScene("photo", m, p) : m \in {"none", "aiMask"}, p \in ParamsSet}
    /\ canvas = <<>>
    /\ stages = <<>>
    /\ rendered = <<>>

\* ctx.clearRect; ctx.fillStyle = params.background.color; ctx.fillRect
RenderBackground ==
    /\ rnPc = "background"
    /\ canvas' = Append(ClearRect(canvas),
                        DrawOp("background", "fillRect", "", 0, ColorFill(scene.params.background.color), <<>>))
    /\ stages' = Append(stages, "background")
    /\ rnPc' = StageAfter(scene.params, stages')
    /\ UNCHANGED <<scene, rendered>>

\* params.backgroundOrbs.forEach(orb => renderOrb(ctx, orb, ...))
RenderBackgroundOrbs ==
    /\ rnPc = "backgroundOrbs"
    /\ canvas' = canvas \o RenderOrbs("backgroundOrbs", scene.params.backgroundOrbs)
    /\ scene' = [scene EXCEPT !.params.backgroundOrbs = OrbsAfter("backgroundOrbs", scene.params.backgroundOrbs)]
    /\ stages' = Append(stages, "backgroundOrbs")
    /\ rnPc' = StageAfter(scene'.params, stages')
    /\ UNCHANGED rendered

\* createSimplifiedMask(..., image, roundness, maskImage): the mask is taken from
\* maskImage when there is one, from the image otherwise
RenderMask ==
    /\ rnPc = "mask"
    /\ scene' = [scene EXCEPT !.rawMask = IF scene.maskImage # "none" THEN scene.maskImage ELSE scene.image]
    /\ stages' = Append(stages, "mask")
    /\ rnPc' = StageAfter(scene.params, stages')
    /\ UNCHANGED <<canvas, rendered>>

\* renderAccessoryLayer -> createOutlineFromMask(masterMask, ...): the distance
\* field of the stroke layer, computed from rawMask
RenderDistanceField ==
    /\ rnPc = "distanceField"
    /\ scene' = [scene EXCEPT !.outline = scene.rawMask]
    /\ stages' = Append(stages, "distanceField")
    /\ rnPc' = StageAfter(scene.params, stages')
    /\ UNCHANGED <<canvas, rendered>>

\* the rest of renderAccessoryLayer and ctx.drawImage(backSilLayer, ...)
RenderBackSilhouette ==
    /\ rnPc = "backSilhouette"
    /\ LET layer == scene.params.silhouette.backSilhouette
           g == createGradient(layer.gradientStops, "linear")
           tinted == layer.enabled /\ layer.mode = "gradient"
           src == IF ~layer.enabled THEN <<>>
                  ELSE <<DrawOp("backSilhouette", "drawImage", scene.outline, 0, NoFill, <<>>),
                         DrawOp("backSilhouette", "source-in", "", 0,
                                IF layer.mode = "gradient" THEN g.gradient ELSE ColorFill(layer.color), <<>>)>>
       IN  /\ canvas' = Append(canvas, DrawOp("backSilhouette", "drawImage", "", 0, NoFill, src))
           /\ scene' = [scene EXCEPT !.params.silhouette.backSilhouette.gradientStops =
                                         IF tinted THEN g.stops ELSE layer.gradientStops]
    /\ stages' = Append(stages, "backSilhouette")
    /\ rnPc' = StageAfter(scene'.params, stages')
    /\ UNCHANGED rendered

\* silCanvas: rawMask under blur(0.5px), source-in fill, drawn on ctx
RenderSilhouette ==
    /\ rnPc = "silhouette"
    /\ LET sil == scene.params.silhouette
           g == createGradient(sil.gradientStops, sil.gradientType)
           src == <<DrawOp("silhouette", "drawImage", scene.rawMask, 5, NoFill, <<>>),
                    DrawOp("silhouette", "source-in", "", 0,
                           IF sil.mode = "gradient" THEN g.gradient ELSE ColorFill(sil.color), <<>>)>>
       IN  /\ canvas' = Append(canvas, DrawOp("silhouette", "drawImage", "", 0, NoFill, src))
           /\ scene' = [scene EXCEPT !.params.silhouette.gradientStops =
                                         IF sil.mode = "gradient" THEN g.stops ELSE sil.gradientStops]
    /\ stages' = Append(stages, "silhouette")
    /\ rnPc' = StageAfter(scene'.params, stages')
    /\ UNCHANGED rendered

\* fgCanvas: the foreground orbs, destination-in rawMask, drawn on ctx
RenderForegroundOrbs ==
    /\ rnPc = "foregroundOrbs"
    /\ LET src == RenderOrbs("foregroundOrbs", scene.params.foregroundOrbs)
                      \o <<DrawOp("foregroundOrbs", "destination-in", scene.rawMask, 0, NoFill, <<>>)>>
       IN  canvas' = Append(canvas, DrawOp("foregroundOrbs", "drawImage", "", 0, NoFill, src))
    /\ scene' = [scene EXCEPT !.params.foregroundOrbs = OrbsAfter("foregroundOrbs", scene.params.foregroundOrbs)]
    /\ stages' = Append(stages, "foregroundOrbs")
    /\ rnPc' = StageAfter(scene'.params, stages')
    /\ UNCHANGED rendered

\* the copy of ctx.canvas under blur(maxBlur px), destination-in the gradient
\* from A (position 0) to B (position 1), drawn on ctx
RenderDirectionalBlur ==
    /\ rnPc = "directionalBlur"
    /\ LET pb == scene.params.progressiveBlur
           maxBlur == Max2(pb.startBlur, pb.endBlur)
           grad == GradientFill("linear",
                       <<ColorStop(0, "rgba(0,0,0)", BlurOpacity(pb.startBlur, pb.startBlur, pb.endBlur)),
                         ColorStop(10, "rgba(0,0,0)", BlurOpacity(pb.endBlur, pb.startBlur, pb.endBlur))>>)
           src == <<DrawOp("directionalBlur", "drawImage", "", 10 * maxBlur, NoFill, canvas),
                    DrawOp("directionalBlur", "destination-in", "", 0, grad, <<>>)>>
       IN  canvas' = Append(canvas, DrawOp("directionalBlur", "drawImage", "", 0, NoFill, src))
    /\ stages' = Append(stages, "directionalBlur")
    /\ rnPc' = StageAfter(scene.params, stages')
    /\ UNCHANGED <<scene, rendered>>

\* renderAuraScene returns: the target holds the raster of this call
RenderReturn ==
    /\ rnPc = "return"
    /\ rendered' = Append(rendered, [called |-> scene.called, raster |-> canvas])
    /\ rnPc' = "done"
    /\ UNCHANGED <<scene, canvas, stages>>

\* the effect of the component renders again on the same canvas when image,
\* params or maskImage change
RenderAgain ==
    /\ rnPc = "done"
    /\ Len(rendered) < MaxRenders
    /\ \E m \in {scene.maskImage, "aiMask"}, p \in ParamEdits(scene.params) :
           scene' = NewScene(scene.image, m, p)
    /\ rnPc' = "background"
    /\ stages' = <<>>
    /\ UNCHANGED <<canvas, rendered>>

NextRender ==
    \/ (RenderBackground /\ UNCHANGED <<appVars, dfVars, olVars, mkVars, upVars, dicVars, uiVars>>)
    \/ (RenderBackgroundOrbs /\ UNCHANGED <<appVars, dfVars, olVars, mkVars, upVars, dicVars, uiVars>>)
    \/ (RenderMask /\ UNCHANGED <<appVars, dfVars, olVars, mkVars, upVars, dicVars, uiVars>>)
    \/ (RenderDistanceField /\ UNCHANGED <<appVars, dfVars, olVars, mkVars, upVars, dicVars, uiVars>>)
    \/ (RenderBackSilhouette /\ UNCHANGED <<appVars, dfVars, olVars, mkVars, upVars, dicVars, uiVars>>)
    \/ (RenderSilhouette /\ UNCHANGED <<appVars, dfVars, olVars, mkVars, upVars, dicVars, uiVars>>)
    \/ (RenderForegroundOrbs /\ UNCHANGED <<appVars, dfVars, olVars, mkVars, upVars, dicVars, uiVars>>)
    \/ (RenderDirectionalBlur /\ UNCHANGED <<appVars, dfVars, olVars, mkVars, upVars, dicVars, uiVars>>)
    \/ (RenderReturn /\ UNCHANGED <<appVars, dfVars, olVars, mkVars, upVars, dicVars, uiVars>>)
    \/ (RenderAgain /\ UNCHANGED <<appVars, dfVars, olVars, mkVars, upVars, dicVars, uiVars>>)

SpecRender == InitRender /\ [][NextRender]_vars

(***************************************************************************)
(* drawImageCover.  A logical size is the rational [n, d]; the source size *)
(* and the rectangle handed to drawImage are integers.                     *)
(***************************************************************************)
MaxSide == 3

MaxSrc == 2

\* dimensions.width / dimensions.height of resizeCanvas (h * 4/5 need not be
\* an integer) and the integer sizes of the download canvas
LogicalSizes == {[n |-> n, d |-> d] : n \in 1..(2 * MaxSide), d \in {1, 2}}

\* iw, ih as read from the image source; 0 when it has no size yet
SourceSides == 0..MaxSrc

\* Math.floor(n / d) for d > 0
FloorDiv(n, d) == IF n >= 0 THEN n \div d ELSE -((-n + d - 1) \div d)

\* Math.max(logicalW / iw, logicalH / ih) as the rational [n, d]
CoverScale(iw, ih, lw, lh) ==
    LET sw == [n |-> lw.n, d |-> lw.d * iw]
        sh == [n |-> lh.n, d |-> lh.d * ih]
    IN  IF sw.n * sh.d >= sh.n * sw.d THEN sw ELSE sh

\* the rectangle of drawImage(img, x, y, scaledW, scaledH)
CoverRect(iw, ih, lw, lh) ==
    LET s == CoverScale(iw, ih, lw, lh)
        scaledW == FloorDiv(iw * s.n, s.d)
        scaledH == FloorDiv(ih * s.n, s.d)
    IN  [scaledW |-> scaledW, scaledH |-> scaledH,
         x |-> FloorDiv(lw.n - scaledW * lw.d, 2 * lw.d),
         y |-> FloorDiv(lh.n - scaledH * lh.d, 2 * lh.d)]

InitCover ==
    /\ AppIdle /\ DfIdle /\ OlIdle /\ MkIdle /\ UpIdle /\ RnIdle /\ UiIdle
    /\ dicPc = "call"
    /\ dic \in [iw : SourceSides, ih : SourceSides, logicalW : LogicalSizes, logicalH : LogicalSizes,
                rect : {[scaledW |-> 0, scaledH |-> 0, x |-> 0, y |-> 0]}]

\* if (iw === 0 || ih === 0) return
CoverReturnEarly ==
    /\ dicPc = "call"
    /\ dic.iw = 0 \/ dic.ih = 0
    /\ dicPc' = "returned"
    /\ UNCHANGED dic

\* scale, scaledW, scaledH, x, y and ctx.drawImage(img, x, y, scaledW, scaledH)
CoverDraw ==
    /\ dicPc = "call"
    /\ dic.iw # 0 /\ dic.ih # 0
    /\ dic' = [dic EXCEPT !.rect = CoverRect(dic.iw, dic.ih, dic.logicalW, dic.logicalH)]
    /\ dicPc' = "drawn"

NextCover ==
    \/ (CoverReturnEarly /\ UNCHANGED <<appVars, dfVars, olVars, mkVars, upVars, rnVars, uiVars>>)
    \/ (CoverDraw /\ UNCHANGED <<appVars, dfVars, olVars, mkVars, upVars, rnVars, uiVars>>)

SpecCover == InitCover /\ [][NextCover]_vars

(***************************************************************************)
(* The stroke layer of the default back silhouette over the horizontal     *)
(* midline of a 400 x 500 target                                           *)
(***************************************************************************)
\* DEFAULT_PARAMS.silhouette.backSilhouette, the fields createOutlineFromMask gets
BackSilhouetteDefaults ==
    [enabled |-> TRUE, strokeWidth |-> 4, strokeWidthMid |-> 12, strokeWidthEnd |-> 2,
     strokeScale |-> 1, blurStart |-> 5, blurMid |-> 5, blurEnd |-> 5]

\* the layer switched off, and the layer with its widths set to 0
DefaultLayerConfigs ==
    {BackSilhouetteDefaults,
     [BackSilhouetteDefaults EXCEPT !.enabled = FALSE],
     [BackSilhouetteDefaults EXCEPT !.strokeWidth = 0, !.strokeWidthMid = 0, !.strokeWidthEnd = 0]}

\* the midline of rawMask: drawImageCover fills the whole target, so an
\* all-opaque image gives alpha 255 in every column; the colour-keyed soft mask
\* of a single-colour image gives alpha 0 in every column
UniformRow(w, alpha) == [x \in 0 .. (w - 1) |-> alpha]

InitOutlineDefault ==
    /\ olPc = "start"
    /\ config \in DefaultLayerConfigs
    /\ logicalW = 400
    /\ scale = 1
    /\ mask \in {UniformRow(400, 255), UniformRow(400, 0)}
    /\ chokeData = <<>> /\ geom = Null /\ distanceField = <<>>
    /\ i = 0 /\ cur = Null /\ outData = <<>> /\ layerAlpha = <<>>
    /\ AppIdle /\ DfIdle /\ MkIdle /\ UpIdle /\ RnIdle /\ DicIdle /\ UiIdle

SpecOutlineDefault == InitOutlineDefault /\ [][NextOutline]_vars

(***************************************************************************)
(* setParams from handlers that closed over one rendered snapshot          *)
(***************************************************************************)
MaxBatch == 2

\* what a handler means to change: the place in ControlParams and the value
Change(path, val) == [path |-> path, val |-> val]

\* a dispatched action together with the changes its handler means to make
Update(action, changes) == [action |-> action, changes |-> changes]

\* handlePointerMove: onParamUpdate({ progressiveBlur: { ...params.progressiveBlur, startX: x, startY: y } })
dragBlurStart(snapshot, x, y) ==
    Obj([progressiveBlur |-> Spread(Get(snapshot, "progressiveBlur"), Obj([startX |-> x, startY |-> y]))])

\* the controls of the directional blur:
\* setParams({ progressiveBlur: { ...params.progressiveBlur, [field]: v } })
setBlurField(snapshot, field, v) ==
    Obj([progressiveBlur |-> Spread(Get(snapshot, "progressiveBlur"), Obj((field :> v)))])

\* the updates the handlers of one rendered snapshot can dispatch
HandlerUpdates(snapshot) ==
    { Update(dragBlurStart(snapshot, Prim("0.25"), Prim("0.75")),
             {Change(<<"progressiveBlur", "startX">>, Prim("0.25")),
              Change(<<"progressiveBlur", "startY">>, Prim("0.75"))}),
      Update(setBlurField(snapshot, "enabled", Prim("true")),
             {Change(<<"progressiveBlur", "enabled">>, Prim("true"))}),
      Update(setBlurField(snapshot, "endBlur", Prim("40")),
             {Change(<<"progressiveBlur", "endBlur">>, Prim("40"))}),
      Update(handleThemeChange(snapshot, Prim("'#000000'")),
             {Change(<<"background", "color">>, Prim("'#000000'")),
              Change(<<"silhouette", "color">>, Prim("'#000000'"))}),
      Update(updateSilLayer(snapshot, "backSilhouette", Obj([strokeScale |-> Prim("2")])),
             {Change(<<"silhouette", "backSilhouette", "strokeScale">>, Prim("2"))}),
      Update(Obj([showBackgroundOrbs |-> Prim("false")]),
             {Change(<<"showBackgroundOrbs">>, Prim("false"))}) }

paramsReducer(state, action) == mergeParams(state, action)

\* React runs the reducer over the queued actions in dispatch order
RECURSIVE ReduceQueue(_, _)
ReduceQueue(state, queue) ==
    IF queue = <<>> THEN state
    ELSE ReduceQueue(paramsReducer(state, Head(queue).action), Tail(queue))

\* the ControlParams on screen when the handlers are created
RenderedSnapshots ==
    { DEFAULT_PARAMS,
      SetAt(DEFAULT_PARAMS, <<"progressiveBlur", "startBlur">>, Prim("10")),
      SetAt(DEFAULT_PARAMS, <<"silhouette", "mode">>, Prim("'gradient'")) }

InitBatch ==
    /\ disp \in {[snapshot |-> s, state |-> s, queue |-> <<>>, applied |-> <<>>] : s \in RenderedSnapshots}
    /\ ptr = Null
    /\ AppIdle /\ DfIdle /\ OlIdle /\ MkIdle /\ UpIdle /\ RnIdle /\ DicIdle

\* a handler of the rendered snapshot calls setParams(action)
HandlerDispatch ==
    /\ disp.applied = <<>>
    /\ Len(disp.queue) < MaxBatch
    /\ \E u \in HandlerUpdates(disp.snapshot) :
          disp' = [disp EXCEPT !.queue = Append(@, u)]
    /\ UNCHANGED ptr

\* the next render: the queued actions are reduced and the result is rendered
RenderQueued ==
    /\ disp.queue # <<>>
    /\ LET next == ReduceQueue(disp.state, disp.queue)
       IN  disp' = [snapshot |-> next, state |-> next, queue |-> <<>>, applied |-> disp.queue]
    /\ UNCHANGED ptr

NextBatch ==
    \/ (HandlerDispatch /\ UNCHANGED <<appVars, dfVars, olVars, mkVars, upVars, rnVars, dicVars>>)
    \/ (RenderQueued /\ UNCHANGED <<appVars, dfVars, olVars, mkVars, upVars, rnVars, dicVars>>)

SpecBatch == InitBatch /\ [][NextBatch]_vars

(***************************************************************************)
(* The pointer handlers of CanvasDisplay.  Positions are in pixels of the  *)
(* canvas: a normalised coordinate is its numerator over the width or the  *)
(* height in dimensions.                                                   *)
(***************************************************************************)
MaxEvents == 4

\* useState({ width: 800, height: 1000 })
Dimensions == [width |-> 800, height |-> 1000]

hitDist == 15

\* where the pointer is, relative to the canvas: pos.x * width, pos.y * height
PointerPositions ==
    {<<-20, 500>>, <<8, 508>>, <<8, 500>>, <<410, 500>>, <<200, 200>>, <<830, 1040>>}

\* Math.max(0, Math.min(1, v)) for v = n / d: the numerator over d
Clamp01IdentityMutant(n, d) == n

Clamp01(n, d) == IF n < 0 THEN 0 ELSE IF n > d THEN d ELSE n

\* Math.sqrt(Math.pow(pX - hx, 2) + Math.pow(pY - hy, 2)) < hitDist
Hits(pX, pY, hx, hy) == (pX - hx) * (pX - hx) + (pY - hy) * (pY - hy) < hitDist * hitDist

\* the dragTarget handlePointerDown leaves
handlePointerDown(s, pX, pY) ==
    IF ~s.image \/ ~s.showOverlay THEN s.dragTarget
    ELSE IF ~s.pb.enabled THEN s.dragTarget
    ELSE IF Hits(pX, pY, s.pb.startX, s.pb.startY) THEN "blurStart"
    ELSE IF Hits(pX, pY, s.pb.endX, s.pb.endY) THEN "blurEnd"
    ELSE s.dragTarget

\* params.progressiveBlur after handlePointerMove and the reducer
handlePointerMove(s, pX, pY) ==
    LET x == Clamp01(pX, Dimensions.width)
        y == Clamp01(pY, Dimensions.height)
    IN  IF s.dragTarget = "none" THEN s.pb
        ELSE IF s.dragTarget = "blurStart" THEN [s.pb EXCEPT !.startX = x, !.startY = y]
        ELSE IF s.dragTarget = "blurEnd" THEN [s.pb EXCEPT !.endX = x, !.endY = y]
        ELSE s.pb

\* what the component held when the last event arrived
PointerEvent(s, kind, pX, pY) ==
    [kind |-> kind, x |-> pX, y |-> pY, held |-> s.dragTarget, pb |-> s.pb,
     showOverlay |-> s.showOverlay]

\* DEFAULT_PARAMS.progressiveBlur, the A and B handles in canvas pixels; the
\* canvas is mounted only when an image is loaded
InitPointer ==
    /\ ptr \in {[image |-> TRUE, showOverlay |-> so, dragTarget |-> "none",
                 pb |-> [enabled |-> en, startX |-> 0, startY |-> 500, endX |-> 400, endY |-> 500],
                 events |-> 0,
                 last |-> [kind |-> "none", x |-> 0, y |-> 0, held |-> "none",
                           pb |-> [enabled |-> en, startX |-> 0, startY |-> 500, endX |-> 400, endY |-> 500],
                           showOverlay |-> so]] : so \in BOOLEAN, en \in BOOLEAN}
    /\ disp = Null
    /\ AppIdle /\ DfIdle /\ OlIdle /\ MkIdle /\ UpIdle /\ RnIdle /\ DicIdle

\* onMouseDown / onTouchStart
PointerDown ==
    /\ ptr.events < MaxEvents
    /\ \E pos \in PointerPositions :
          ptr' = [ptr EXCEPT !.dragTarget = handlePointerDown(ptr, pos[1], pos[2]),
                             !.last = PointerEvent(ptr, "down", pos[1], pos[2]),
                             !.events = @ + 1]
    /\ UNCHANGED disp

\* onMouseMove / onTouchMove
PointerMove ==
    /\ ptr.events < MaxEvents
    /\ \E pos \in PointerPositions :
          ptr' = [ptr EXCEPT !.pb = handlePointerMove(ptr, pos[1], pos[2]),
                             !.last = PointerEvent(ptr, "move", pos[1], pos[2]),
                             !.events = @ + 1]
    /\ UNCHANGED disp

\* onMouseUp / onTouchEnd: handlePointerUp
PointerUp ==
    /\ ptr.events < MaxEvents
    /\ ptr' = [ptr EXCEPT !.dragTarget = "none",
                          !.last = PointerEvent(ptr, "up", 0, 0),
                          !.events = @ + 1]
    /\ UNCHANGED disp

\* onMouseLeave: handlePointerUp
PointerLeave ==
    /\ ptr.events < MaxEvents
    /\ ptr' = [ptr EXCEPT !.dragTarget = "none",
                          !.last = PointerEvent(ptr, "leave", 0, 0),
                          !.events = @ + 1]
    /\ UNCHANGED disp

\* the panel: the Directional Blur checkbox, and the advanced view that shows
\* the overlay
PanelToggle ==
    /\ ptr.events < MaxEvents
    /\ \/ ptr' = [ptr EXCEPT !.pb.enabled = ~ptr.pb.enabled,
                             !.last = PointerEvent(ptr, "panel", 0, 0),
                             !.events = @ + 1]
       \/ ptr' = [ptr EXCEPT !.showOverlay = ~ptr.showOverlay,
                             !.last = PointerEvent(ptr, "panel", 0, 0),
                             !.events = @ + 1]
    /\ UNCHANGED disp

NextPointer ==
    \/ (PointerDown /\ UNCHANGED <<appVars, dfVars, olVars, mkVars, upVars, rnVars, dicVars>>)
    \/ (PointerMove /\ UNCHANGED <<appVars, dfVars, olVars, mkVars, upVars, rnVars, dicVars>>)
    \/ (PointerUp /\ UNCHANGED <<appVars, dfVars, olVars, mkVars, upVars, rnVars, dicVars>>)
    \/ (PointerLeave /\ UNCHANGED <<appVars, dfVars, olVars, mkVars, upVars, rnVars, dicVars>>)
    \/ (PanelToggle /\ UNCHANGED <<appVars, dfVars, olVars, mkVars, upVars, rnVars, dicVars>>)

SpecPointer == InitPointer /\ [][NextPointer]_vars

(***************************************************************************)
(* Claims about the loader and the merge                                   *)
(***************************************************************************)
\* every field of def is present in val with a value that is not undefined,
\* at every depth of nested records
RECURSIVE Complete(_, _)
Complete(val, def) ==
    /\ IsRecord(val)
    /\ \A key \in DOMAIN def.f :
          /\ key \in DOMAIN val.f
          /\ val.f[key].k # "undef"
          /\ (IsRecord(def.f[key]) => Complete(val.f[key], def.f[key]))

\* every top-level field of def is present in val, and a field that is a record
\* in def is a record in val that has the fields of def's record
CompleteOneLevel(val, def) ==
    /\ IsRecord(val)
    /\ \A key \in DOMAIN def.f :
          /\ key \in DOMAIN val.f
          /\ val.f[key].k # "undef"
          /\ (IsRecord(def.f[key]) =>
                /\ IsRecord(val.f[key])
                /\ DOMAIN def.f[key].f \subseteq DOMAIN val.f[key].f)

JustLoaded == appPc = "loaded"

\* C1: for every saved document that is a sub-document of a valid
\* ControlParams (fields omitted at any depth), loadInitialParams returns a
\* configuration in which every field of DEFAULT_PARAMS, at every depth, is
\* present with a value that is not undefined.
C1_LoadComplete ==
    (JustLoaded /\ storage.st = "json" /\ storage.doc \in SubDocuments)
        => Complete(params, DEFAULT_PARAMS)

MergeCalled == target # Null

\* C2: mergeParams(defaults, {}) equals defaults, and mergeParams(defaults, P)
\* keeps, with its value in defaults, every top-level key of defaults that is
\* absent from P or whose value in P is undefined.
C2_MergeKeepsAbsent ==
    MergeCalled =>
        /\ (source = Obj(EmptyFn) => output = target)
        /\ \A key \in DOMAIN target.f :
              (key \notin ForInKeys(source) \/ source.f[key] = Undef)
                  => (key \in DOMAIN output.f /\ output.f[key] = target.f[key])

\* C2 witness: a merge whose source names a key of the target with the value
\* undefined, and a merge of the empty document
C2_Witness ==
    /\ MergeCalled
    /\ \E key \in DOMAIN target.f :
          key \in ForInKeys(source) /\ source.f[key] = Undef /\ output.f[key] = target.f[key]
    /\ \E key \in DOMAIN target.f : key \notin ForInKeys(source)

\* C3: for every key present in the partial document, mergeParams overwrites
\* the target's value when the source value is a scalar or an array; when both
\* values are non-array records the result is the one-level shallow merge:
\* the target's nested keys are kept unless the source record names them, the
\* source's nested values win as they are, and no deeper level is merged.
C3_MergeOverwrites ==
    MergeCalled =>
        \A key \in ForInKeys(source) :
            LET sv == source.f[key]
                tv == Get(target, key)
            IN  /\ sv.k \in {"prim", "null", "arr"} => output.f[key] = sv
                /\ (IsRecord(sv) /\ IsRecord(tv)) =>
                      /\ IsRecord(output.f[key])
                      /\ DOMAIN output.f[key].f = DOMAIN tv.f \cup DOMAIN sv.f
                      /\ \A nk \in DOMAIN sv.f : output.f[key].f[nk] = sv.f[nk]
                      /\ \A nk \in DOMAIN tv.f \ DOMAIN sv.f : output.f[key].f[nk] = tv.f[nk]

\* C3 witness: a merge of two records whose nested records differ, where the
\* result holds the source's nested record and not a merge of the two
C3_Witness ==
    /\ MergeCalled
    /\ \E key \in ForInKeys(source) :
          LET sv == source.f[key]
              tv == Get(target, key)
          IN  /\ IsRecord(sv) /\ IsRecord(tv)
              /\ \E nk \in DOMAIN sv.f \cap DOMAIN tv.f :
                    /\ IsRecord(sv.f[nk]) /\ IsRecord(tv.f[nk])
                    /\ Spread(tv.f[nk], sv.f[nk]) # sv.f[nk]
                    /\ output.f[key].f[nk] = sv.f[nk]
              /\ \E nk \in DOMAIN tv.f : nk \notin DOMAIN sv.f /\ output.f[key].f[nk] = tv.f[nk]
    /\ \E key \in ForInKeys(source) : source.f[key].k = "prim" /\ output.f[key] = source.f[key]

\* C4: loadInitialParams never fails: with nothing stored, unreadable storage
\* or text that is not JSON it returns exactly DEFAULT_PARAMS; otherwise it
\* returns the merge of the saved document over DEFAULT_PARAMS, and no saved
\* value (null or a non-object in place of a record included) makes a default
\* field be lost.
C4_LoadNeverLoses ==
    JustLoaded =>
        /\ storage.st # "json" => params = DEFAULT_PARAMS
        /\ storage.st = "json" =>
              /\ params = mergeParams(DEFAULT_PARAMS, storage.doc)
              /\ CompleteOneLevel(params, DEFAULT_PARAMS)

(***************************************************************************)
(* Claims about the distance field                                         *)
(***************************************************************************)
Cells == 0 .. (physicalW * physicalH - 1)

Foreground == {idx \in Cells : data[idx] > 128}

PixelAt(x, y) == y * physicalW + x

InGrid(x, y) == x >= 0 /\ x < physicalW /\ y >= 0 /\ y < physicalH

AxisSteps == {<<1, 0>>, <<-1, 0>>, <<0, 1>>, <<0, -1>>}

DiagonalSteps == {<<1, 1>>, <<1, -1>>, <<-1, 1>>, <<-1, -1>>}

\* the pixel idx has a foreground pixel one step away in one of the directions
HasFgNeighbour(idx, steps) ==
    \E st \in steps :
        LET x == (idx % physicalW) + st[1]
            y == (idx \div physicalW) + st[2]
        IN  InGrid(x, y) /\ PixelAt(x, y) \in Foreground

\* C5: once the seed loop has run, and after each of the two passes, every
\* pixel whose mask alpha is > 128 has distance exactly 0 and every pixel whose
\* alpha is <= 128 has a strictly positive distance (finite or Infinity):
\* neither pass changes a seeded 0 or produces a new 0.
C5_ZeroIffForeground ==
    dfPc \in {"pass1", "pass2", "done"} =>
        \A idx \in Cells :
            /\ data[idx] > 128 => dist[idx] = 0
            /\ data[idx] <= 128 => dist[idx] > 0

\* C5 witness: both passes are done on a mask that has a pixel of alpha 129,
\* a pixel of alpha 128 and a background pixel at a finite distance
C5_Witness ==
    /\ dfPc = "done"
    /\ \E a \in Cells, b \in Cells :
          data[a] = 129 /\ data[b] = 128 /\ dist[a] = 0 /\ dist[b] > 0 /\ dist[b] < Inf

\* C6: in the result, every background pixel with a foreground pixel among
\* its four axis neighbours has distance exactly 1.0, and every background
\* pixel with no foreground axis neighbour but a foreground diagonal
\* neighbour has distance exactly the stored diagonal weight, wherever the
\* pixel lies on the grid.
C6_OneStepDistances ==
    dfPc = "done" =>
        \A idx \in Cells \ Foreground :
            /\ HasFgNeighbour(idx, AxisSteps) => dist[idx] = 8388608
            /\ (~HasFgNeighbour(idx, AxisSteps) /\ HasFgNeighbour(idx, DiagonalSteps))
                  => dist[idx] = 11863283

\* C6 witness: a background pixel of the first row whose only foreground
\* neighbour is the one below and to its left, and a background pixel of the
\* last column with a foreground axis neighbour
C6_Witness ==
    /\ dfPc = "done"
    /\ physicalH > 1 /\ physicalW > 1
    /\ \E x \in 1 .. (physicalW - 1) :
          /\ PixelAt(x, 0) \notin Foreground
          /\ ~HasFgNeighbour(PixelAt(x, 0), AxisSteps)
          /\ PixelAt(x - 1, 1) \in Foreground
          /\ \A st \in DiagonalSteps \ {<<-1, 1>>} :
                InGrid(x + st[1], st[2]) => PixelAt(x + st[1], st[2]) \notin Foreground
          /\ dist[PixelAt(x, 0)] = 11863283
    /\ \E y \in 0 .. (physicalH - 1) :
          /\ PixelAt(physicalW - 1, y) \notin Foreground
          /\ dist[PixelAt(physicalW - 1, y)] = 8388608

AllSteps == AxisSteps \cup DiagonalSteps

\* the chamfer metric between two pixels: diagonal steps for the smaller of
\* the two offsets, axis steps for the rest (in units of 2^-23)
ChamferMetric(a, b) ==
    LET dx == Abs((a % physicalW) - (b % physicalW))
        dy == Abs((a \div physicalW) - (b \div physicalW))
        mn == IF dx < dy THEN dx ELSE dy
        mx == IF dx < dy THEN dy ELSE dx
    IN  (mx - mn) * 8388608 + mn * 11863283

\* q is a foreground pixel nearest to p
NearestFg(q, p) ==
    /\ q \in Foreground
    /\ \A r \in Foreground : ChamferMetric(p, q) <= ChamferMetric(p, r)

\* q is the one foreground pixel nearest to p
OnlyNearestFg(q, p) ==
    /\ q \in Foreground
    /\ \A r \in Foreground \ {q} : ChamferMetric(p, q) < ChamferMetric(p, r)

\* the pixel k steps from q in direction st, or -1 when it is off the grid
StepFrom(q, st, k) ==
    LET x == (q % physicalW) + k * st[1]
        y == (q \div physicalW) + k * st[2]
    IN  IF InGrid(x, y) THEN PixelAt(x, y) ELSE -1

MaxSteps == IF physicalW > physicalH THEN physicalW ELSE physicalH

\* C7 as stated: along any straight (row, column or diagonal) path that
\* starts at the one foreground pixel nearest to a pixel and moves directly
\* away from it, the distance does not decrease at the next step.
C7_MonotoneAway ==
    dfPc = "done" =>
        \A q \in Foreground, st \in AllSteps, k \in 1 .. MaxSteps :
            LET p == StepFrom(q, st, k)
                n == StepFrom(q, st, k + 1)
            IN  (p # -1 /\ n # -1) => (dist[n] >= dist[p] \/ ~OnlyNearestFg(q, p))

\* C7 amended: along a straight path away from a foreground pixel q, the
\* distance does not decrease from one pixel to the next as long as q is a
\* nearest foreground pixel of both.
C7_MonotoneWhileNearest ==
    dfPc = "done" =>
        \A q \in Foreground, st \in AllSteps, k \in 1 .. MaxSteps :
            LET p == StepFrom(q, st, k)
                n == StepFrom(q, st, k + 1)
            IN  (p # -1 /\ n # -1) => (dist[n] >= dist[p] \/ ~(NearestFg(q, p) /\ NearestFg(q, n)))

\* C7 witness: two foreground pixels, and a path of three steps away from one
\* of them, ending in the last column, on which it stays the nearest
C7_Witness ==
    /\ dfPc = "done"
    /\ Cardinality(Foreground) = 2
    /\ \E q \in Foreground, st \in AllSteps :
          LET p == StepFrom(q, st, 3)
              n == StepFrom(q, st, 4)
          IN  /\ p # -1 /\ n # -1 /\ NearestFg(q, p) /\ NearestFg(q, n)
              /\ n % physicalW = physicalW - 1
              /\ dist[n] > dist[p]

\* the value the pixel idx gets from its neighbour in direction st: the
\* neighbour's distance plus the step weight as the Float32Array stores it,
\* Infinity when the neighbour is off the grid
StepCost(idx, st) ==
    LET x == (idx % physicalW) + st[1]
        y == (idx \div physicalW) + st[2]
    IN  IF ~InGrid(x, y) THEN Inf
        ELSE IF st \in AxisSteps THEN PlusW1(dist[PixelAt(x, y)])
        ELSE PlusW2(dist[PixelAt(x, y)])

\* value is within tol of the chamfer metric from p to its nearest foreground
\* pixel, the metric being summed without rounding
NearNearestMetric(fg, p, value, tol) ==
    /\ \E q \in fg : Abs(value - ChamferMetric(p, q)) <= tol
    /\ \A r \in fg : ChamferMetric(p, r) >= value - tol

\* the pixel p has the value one of its eight neighbours offers, and exceeds
\* no neighbour's offer by more than tol
LeastOffer(p, tol) ==
    LET offers == {StepCost(p, st) : st \in AllSteps}
    IN  dist[p] \in offers /\ \A c \in offers : dist[p] <= c + tol

WidthsPresent ==
    /\ config.strokeWidthMid # NoValue
    /\ config.strokeWidthEnd # NoValue
    /\ config.strokeScale # NoValue

\* the loop has just processed a pixel with a finite distance d > 0
PixelProcessed == olPc = "loop" /\ i > 0 /\ ~cur.skipped

\* C8: at a processed pixel the target width is strokeWidth * strokeScale at
\* t = 0, strokeWidthMid * strokeScale at t = 0.5, strokeWidthEnd * strokeScale
\* at t = 1, and the midpoint of the two neighbouring stops at t = 0.25 and
\* t = 0.75, whatever the values of the parameters, 0 included.
C8_TargetWidthAtStops ==
    (PixelProcessed /\ WidthsPresent) =>
        LET w == geom.physicalW
            start == config.strokeWidth * config.strokeScale
            mid == config.strokeWidthMid * config.strokeScale
            end == config.strokeWidthEnd * config.strokeScale
            tw == cur.currentTargetWidth
        IN  /\ cur.t = 0 => tw = start * w
            /\ 2 * cur.t = w => tw = mid * w
            /\ cur.t = w => tw = end * w
            /\ 4 * cur.t = w => 2 * tw = (start + mid) * w
            /\ 4 * cur.t = 3 * w => 2 * tw = (mid + end) * w

\* C9: when strokeWidth, strokeWidthMid and strokeWidthEnd, each multiplied by
\* the layer's strokeScale, are all <= 0, the finished stroke layer is fully
\* transparent.
C9_NonPositiveWidthsTransparent ==
    (/\ olPc = "done"
     /\ WidthsPresent
     /\ config.strokeWidth * config.strokeScale <= 0
     /\ config.strokeWidthMid * config.strokeScale <= 0
     /\ config.strokeWidthEnd * config.strokeScale <= 0)
        => \A x \in DOMAIN layerAlpha : layerAlpha[x] = 0

\* 1 - x * x * (3 - 2 * x) for x = n / d in [0, 1], as a byte
OneMinusSmoothstepByte(n, d) ==
    LET g == Gcd(n, d)
        p == n \div g
        q == d \div g
    IN  ToUint8(q * q * q - 3 * p * p * q + 2 * p * p * p, q * q * q)

\* the alpha the three cases give a pixel at distance k physical pixels whose
\* target width is twN / w and whose feather is frN / (54 * w * w)
ExpectedAlpha(k, twN, frN, w, sc) ==
    IF k * w <= sc * twN THEN 255
    ELSE IF 54 * w * w * k > sc * (54 * w * twN + frN) THEN 0
    ELSE OneMinusSmoothstepByte(54 * w * (k * w - sc * twN), sc * frN)

\* the columns of the padded scanline the loop has been through
Processed == {x \in DOMAIN outData : x < i /\ distanceField[x] # 0 /\ distanceField[x] # Inf}

\* C10: a pixel at finite distance d > 0 gets alpha 1 within the target width,
\* 1 - smoothstep(d, tw, tw + feather) in the feather band and 0 beyond it; the
\* alpha is within [0, 1] and, among the pixels with the same t, does not
\* increase with d.
C10_AlphaByDistance ==
    olPc = "loop" =>
        /\ PixelProcessed =>
              outData[i - 1] = ExpectedAlpha(distanceField[i - 1] \div W1, cur.currentTargetWidth,
                                             cur.featherRange, geom.physicalW, scale)
        /\ \A x \in DOMAIN outData : outData[x] \in 0 .. 255
        /\ i = geom.paddedWPhysical =>
              \A x1, x2 \in Processed :
                  (TNum(x1, geom) = TNum(x2, geom) /\ distanceField[x1] <= distanceField[x2])
                      => outData[x1] >= outData[x2]

\* C10 witness: at device scale 2 the loop has finished a scanline on which it
\* wrote a full alpha, an alpha strictly inside the feather band, and left a
\* pixel beyond the band untouched
C10_Witness ==
    /\ olPc = "loop" /\ i = geom.paddedWPhysical /\ scale = 2
    /\ \E x1, x2, x3 \in Processed :
          /\ TNum(x1, geom) = TNum(x2, geom) /\ TNum(x2, geom) = TNum(x3, geom)
          /\ outData[x1] = 255
          /\ outData[x2] \in 1 .. 254
          /\ outData[x3] = 0

(***************************************************************************)
(* Claims about mask extraction                                            *)
(***************************************************************************)
\* the pixels of the raw mask with alpha > 20
CsmLit == {idx \in DOMAIN csm.fData : csm.fData[idx] > 20}

SetMin(S) == CHOOSE a \in S : \A b \in S : a <= b

SetMax(S) == CHOOSE a \in S : \A b \in S : a >= b

\* the rationals <<a, b>> and <<c, d>> are equal (positive denominators)
RatEq(p, q) == p[1] * q[2] = q[1] * p[2]

\* the rational <<a, b>> lies in [0, limit]
RatWithin(p, limit) == p[1] >= 0 /\ p[1] <= limit * p[2]

\* C11: createSimplifiedMask returns the centre (logicalW / 2, logicalH / 2)
\* when no pixel of the raw mask has alpha > 20; otherwise it returns the
\* midpoint of the bounding box of those pixels divided by the scale, and that
\* centre lies within [0, logicalW] x [0, logicalH].
C11_CenterInBounds ==
    csmPc = "done" =>
        IF CsmLit = {}
        THEN csm.center = [x |-> <<csm.logicalW, 2>>, y |-> <<csm.logicalH, 2>>]
        ELSE LET xs == {idx % csm.physicalW : idx \in CsmLit}
                 ys == {idx \div csm.physicalW : idx \in CsmLit}
             IN  /\ RatEq(csm.center.x, <<(SetMin(xs) + SetMax(xs)) * csm.scale.d, 2 * csm.scale.n>>)
                 /\ RatEq(csm.center.y, <<(SetMin(ys) + SetMax(ys)) * csm.scale.d, 2 * csm.scale.n>>)
                 /\ RatWithin(csm.center.x, csm.logicalW)
                 /\ RatWithin(csm.center.y, csm.logicalH)

\* C11 witness: at scale 3/2 the mask's only pixels are in the last column of
\* a canvas whose physical width was rounded up, and the centre was returned
C11_Witness ==
    /\ csmPc = "done"
    /\ csm.scale = [n |-> 3, d |-> 2]
    /\ csm.physicalW * csm.scale.d > csm.logicalW * csm.scale.n
    /\ CsmLit # {}
    /\ \A idx \in CsmLit : idx % csm.physicalW = csm.physicalW - 1

\* the corner pixels of the uploaded image
GsmCornerPixels ==
    {gsm.data[0], gsm.data[gsm.width - 1], gsm.data[gsm.width * (gsm.height - 1)],
     gsm.data[gsm.width * gsm.height - 1]}

\* four times the mean of a channel over the four corners
GsmCornerMean4(ch) ==
    gsm.data[0][ch] + gsm.data[gsm.width - 1][ch] + gsm.data[gsm.width * (gsm.height - 1)][ch]
        + gsm.data[gsm.width * gsm.height - 1][ch]

\* four times the largest per-channel distance of pixel p from the mean corner colour
GsmColorDistance4(p) ==
    SetMax({Abs(4 * p[ch] - GsmCornerMean4(ch)) : ch \in {"r", "g", "b"}})

\* C12: after the threshold step, when the mean corner alpha is < 250 a mask
\* pixel has alpha 255 iff its source alpha is > 50 and 0 otherwise; when it is
\* >= 250 a mask pixel has alpha 0 iff its largest per-channel distance from
\* the mean corner colour is < 35 and 255 otherwise; the mask is white.
C12_ThresholdStep ==
    gsmPc = "done" =>
        \A idx \in DOMAIN gsm.data :
            LET p == gsm.data[idx]
                m == gsm.mData[idx]
            IN  /\ m.r = 255 /\ m.g = 255 /\ m.b = 255
                /\ m.a \in {0, 255}
                /\ IF GsmCornerMean4("a") < 1000
                   THEN m.a = 255 <=> p.a > 50
                   ELSE m.a = 0 <=> GsmColorDistance4(p) < 140

\* C12 witness: an opaque-cornered image was colour keyed, one of its pixels is
\* at distance exactly 35 from the mean corner colour and was kept, another is
\* nearer and was cut
C12_Witness ==
    /\ gsmPc = "done"
    /\ GsmCornerMean4("a") >= 1000
    /\ \E i1, i2 \in DOMAIN gsm.data :
          /\ GsmColorDistance4(gsm.data[i1]) = 140 /\ gsm.mData[i1].a = 255
          /\ GsmColorDistance4(gsm.data[i2]) < 140 /\ gsm.mData[i2].a = 0

(***************************************************************************)
(* Claims about the upload flow                                            *)
(***************************************************************************)
\* removeBackgroundSD3 has settled for upload u
Sd3Settled(u) == uploads[u].sd3 \in {"null", "mask", "rejected"}

\* C13: the promise of removeBackgroundSD3 is never rejected; once settled it
\* holds null whenever the fetch failed, the status was not 2xx or the body
\* could not be read or decoded, and it holds a mask only when the status was
\* 2xx and the body decoded.
C13_Sd3NeverRaises ==
    \A u \in DOMAIN uploads :
        /\ uploads[u].sd3 # "rejected"
        /\ Sd3Settled(u) =>
              /\ (\/ uploads[u].fetchResult \in {"networkError", "non2xx"}
                  \/ uploads[u].bodyResult \in {"blobError", "undecodable"})
                    => uploads[u].sd3 = "null"
              /\ uploads[u].sd3 = "mask"
                    => (uploads[u].fetchResult = "ok" /\ uploads[u].bodyResult = "decoded")

\* C13 witness: one call ended on a non-2xx status and another on a body that
\* did not decode, both with null, and handleFileChange went on
C13_Witness ==
    \E u1, u2 \in DOMAIN uploads :
        /\ uploads[u1].fetchResult = "non2xx" /\ uploads[u1].sd3 = "null"
        /\ uploads[u2].bodyResult = "undecodable" /\ uploads[u2].sd3 = "null"
        /\ uploads[u1].pc = "done" /\ uploads[u2].pc = "done"

\* the remote service gave upload u no mask: no API key, or a call that settled with null
RemoteGaveNoMask(u) == ~uploads[u].hasKey \/ uploads[u].sd3 = "null"

\* C14: in every upload the remote service is called at most once; when
\* setMaskImage(mask) has run and the remote service gave no mask (failure or
\* no API key), generateSoftMask has been invoked, once and for the upload's
\* file; when the remote service gave a mask, generateSoftMask is not invoked.
C14_LocalFallback ==
    \A u \in DOMAIN uploads :
        /\ uploads[u].remoteCalls <= 1
        /\ (uploads[u].maskSet /\ RemoteGaveNoMask(u))
              => (uploads[u].localCalls = 1 /\ uploads[u].softFile = uploads[u].file)
        /\ uploads[u].sd3 = "mask" => uploads[u].localCalls = 0

\* C14 witness: of two finished uploads one fell back to the local heuristic
\* after a failed remote call and the other kept the remote mask
C14_Witness ==
    \E u1, u2 \in DOMAIN uploads :
        /\ uploads[u1].pc = "done" /\ uploads[u1].hasKey /\ uploads[u1].sd3 = "null"
        /\ uploads[u1].localCalls = 1
        /\ uploads[u2].pc = "done" /\ uploads[u2].sd3 = "mask" /\ uploads[u2].localCalls = 0
        /\ uploads[u2].mask.from = "remote"

\* C15: a failure inside generateSoftMask (the image does not decode, or the
\* processing of the decoded image throws) makes its promise resolve to null.
C15_LocalFailureResolvesNull ==
    \A u \in DOMAIN uploads :
        (uploads[u].loadResult = "onerror" \/ uploads[u].processResult = "threw")
            => uploads[u].soft = "null"

\* C27: every invocation of handleFileChange eventually sets isProcessing back
\* to false, whatever the outcome of the remote mask, the local mask, the file
\* read and the image decode (a corrupt file included).
C27_ProcessingEventuallyReset ==
    \A u \in 1 .. MaxUploads :
        (Len(uploads) >= u) ~> (Len(uploads) >= u /\ uploads[u].pc = "done")

\* the displayed image and the mask belong together: there is no mask, or it
\* was made from the file of the image
MaskMatchesImage == maskImage = NoMask \/ maskImage.file = image

\* every handleFileChange started so far has run setIsProcessing(false)
UploadsSettled == \A u \in DOMAIN uploads : uploads[u].pc = "done"

\* C28: for any interleaving of two overlapping uploads, once both have
\* settled the maskImage and the image derive from the same file, the one
\* uploaded last; the scene is never rendered with a non-null mask that was
\* made from another file than the displayed image.
C28_MaskAndImageOfSameFile ==
    /\ (Len(uploads) >= 2 /\ UploadsSettled) =>
          /\ image = Len(uploads)
          /\ MaskMatchesImage
    /\ image # 0 => MaskMatchesImage

(***************************************************************************)
(* Claims about renderAuraScene                                            *)
(***************************************************************************)
StageRank(stage) ==
    CASE stage = "background" -> 1
      [] stage = "backgroundOrbs" -> 2
      [] stage = "mask" -> 3
      [] stage = "distanceField" -> 4
      [] stage = "backSilhouette" -> 5
      [] stage = "silhouette" -> 6
      [] stage = "foregroundOrbs" -> 7
      [] stage = "directionalBlur" -> 8

StagesDone == {stages[j] : j \in DOMAIN stages}

RenderFinished == rnPc \in {"return", "done"}

\* C16: every render runs its stages in the fixed order clear and background
\* fill, background orbs, mask extraction, back-silhouette stroke layer, main
\* silhouette, foreground orbs, directional blur: a stage runs at most once and
\* only after every earlier one, the target is drawn on in that order, the mask
\* is extracted exactly once, and the distance field of the stroke layer is
\* computed from the extracted mask before the layer is composited.
C16_FixedStageOrder ==
    /\ \A j, k \in DOMAIN stages : j < k => StageRank(stages[j]) < StageRank(stages[k])
    /\ stages # <<>> =>
          /\ \A j, k \in DOMAIN canvas : j < k => StageRank(canvas[j].stage) <= StageRank(canvas[k].stage)
          /\ \A j \in DOMAIN canvas : canvas[j].stage \in StagesDone
    /\ "distanceField" \in StagesDone => ("mask" \in StagesDone /\ scene.outline = scene.rawMask /\ scene.rawMask # "")
    /\ "backSilhouette" \in StagesDone =>
          ("distanceField" \in StagesDone <=> LayerHasOutline(scene.params.silhouette.backSilhouette))
    /\ RenderFinished =>
          /\ {"background", "mask", "backSilhouette", "silhouette"} \subseteq StagesDone
          /\ Cardinality({j \in DOMAIN stages : stages[j] = "mask"}) = 1
          /\ "backgroundOrbs" \in StagesDone <=> scene.params.showBackgroundOrbs
          /\ "foregroundOrbs" \in StagesDone <=>
                 (scene.params.showForegroundOrbs /\ Len(scene.params.foregroundOrbs) > 0)
          /\ "directionalBlur" \in StagesDone <=> BlurApplies(scene.params.progressiveBlur)

C16_Witness == rnPc = "done" /\ Len(stages) = 8 /\ Len(rendered) = 2


DistinctPositions(stops) ==
    \A j, k \in DOMAIN stops : j # k => stops[j].position # stops[k].position

\* colorStops are the stops, each once, in ascending position order
AscendingArrangement(colorStops, stops) ==
    /\ Len(colorStops) = Len(stops)
    /\ {<<colorStops[j].position, colorStops[j].color>> : j \in DOMAIN colorStops}
           = {<<stops[j].position, stops[j].color>> : j \in DOMAIN stops}
    /\ \A j, k \in DOMAIN colorStops : j < k => colorStops[j].position < colorStops[k].position

SamePositionsAndColors(s, t) ==
    /\ Len(s) = Len(t)
    /\ {s[j] : j \in DOMAIN s} = {t[j] : j \in DOMAIN t}

\* the operation a stage drew on the target
StageOp(raster, stage) == raster[CHOOSE j \in DOMAIN raster : raster[j].stage = stage]

\* the orb operations of the background-orb stage on the target, in call order
OrbOps(raster) == SelectSeq(raster, LAMBDA o : o.stage = "backgroundOrbs")

\* C18: for stops with pairwise distinct positions createGradient and renderOrb
\* submit the stops to addColorStop in ascending position order, so every
\* permutation of the same stops yields the same addColorStop sequence.
C18_StopsAscending ==
    /\ \A r \in DOMAIN rendered :
          LET p == rendered[r].called.params
              raster == rendered[r].raster
          IN  /\ (p.silhouette.mode = "gradient" /\ DistinctPositions(p.silhouette.gradientStops)) =>
                     AscendingArrangement(StageOp(raster, "silhouette").src[2].fill.colorStops,
                                          p.silhouette.gradientStops)
              /\ (LayerHasOutline(p.silhouette.backSilhouette)
                      /\ DistinctPositions(p.silhouette.backSilhouette.gradientStops)) =>
                     AscendingArrangement(StageOp(raster, "backSilhouette").src[2].fill.colorStops,
                                          p.silhouette.backSilhouette.gradientStops)
              /\ p.showBackgroundOrbs =>
                     \A j \in DOMAIN p.backgroundOrbs :
                         (p.backgroundOrbs[j].type = "radial" /\ DistinctPositions(p.backgroundOrbs[j].stops)) =>
                             AscendingArrangement(OrbOps(raster)[j].fill.colorStops, p.backgroundOrbs[j].stops)
    /\ \A a, b \in DOMAIN rendered :
          LET sa == rendered[a].called.params.silhouette
              sb == rendered[b].called.params.silhouette
          IN  (sa.mode = "gradient" /\ sb.mode = "gradient" /\ DistinctPositions(sa.gradientStops)
                   /\ SamePositionsAndColors(sa.gradientStops, sb.gradientStops)) =>
                  StageOp(rendered[a].raster, "silhouette").src[2].fill
                      = StageOp(rendered[b].raster, "silhouette").src[2].fill

C18_Witness ==
    /\ Len(rendered) = 2
    /\ rendered[1].called.params.silhouette.mode = "gradient"
    /\ rendered[1].called.params.silhouette.gradientStops # rendered[2].called.params.silhouette.gradientStops
    /\ rendered[1].called.params.silhouette.gradientStops = <<StopMid, StopHigh, StopLow>>
    /\ rendered[2].called.params.showBackgroundOrbs
    /\ LayerHasOutline(rendered[2].called.params.silhouette.backSilhouette)


\* the opacity <<n, d>> is the quotient of x by y
IsQuotient(opacity, x, y) == opacity[2] # 0 /\ y # 0 /\ opacity[1] * y = x * opacity[2]

\* C19: when the directional blur is applied (enabled, startBlur >= 0,
\* endBlur >= 0, the larger one positive) the mask opacity at A is
\* startBlur / max and at B endBlur / max, both within [0, 1]; the endpoint
\* with the larger blur has opacity exactly 1 and an endpoint with blur 0 has
\* opacity exactly 0.
C19_BlurOpacities ==
    \A r \in DOMAIN rendered :
        LET pb == rendered[r].called.params.progressiveBlur
            maxBlur == IF pb.startBlur >= pb.endBlur THEN pb.startBlur ELSE pb.endBlur
        IN  (pb.enabled /\ pb.startBlur >= 0 /\ pb.endBlur >= 0 /\ maxBlur > 0) =>
                LET grad == StageOp(rendered[r].raster, "directionalBlur").src[2].fill.colorStops
                    atA == grad[1].opacity
                    atB == grad[2].opacity
                IN  /\ grad[1].position = 0 /\ grad[2].position = 10
                    /\ IsQuotient(atA, pb.startBlur, maxBlur)
                    /\ IsQuotient(atB, pb.endBlur, maxBlur)
                    /\ atA[2] > 0 /\ 0 <= atA[1] /\ atA[1] <= atA[2]
                    /\ atB[2] > 0 /\ 0 <= atB[1] /\ atB[1] <= atB[2]
                    /\ pb.startBlur = maxBlur => atA[1] = atA[2]
                    /\ pb.endBlur = maxBlur => atB[1] = atB[2]
                    /\ pb.startBlur = 0 => atA[1] = 0
                    /\ pb.endBlur = 0 => atB[1] = 0

C19_Witness ==
    /\ rnPc = "done"
    /\ "directionalBlur" \in StagesDone
    /\ scene.params.progressiveBlur.startBlur = 20
    /\ scene.params.progressiveBlur.endBlur = 0
    /\ Len(rendered) = 2
    /\ rendered[1].called.params.progressiveBlur.startBlur = 0
    /\ rendered[1].called.params.progressiveBlur.endBlur = 20


\* C20: a render never mutates its ControlParams argument: at every point of
\* the call the parameters, including the order of every gradientStops array,
\* of every orb's stops and of the orb arrays, are as they were passed.
C20_ParamsNotMutated == rnPc # "idle" => scene.params = scene.called.params

C20_Witness ==
    /\ rnPc = "done"
    /\ scene.params.silhouette.mode = "gradient"
    /\ scene.params.silhouette.gradientStops = <<StopHigh, StopMid, StopLow>>
    /\ LayerHasOutline(scene.params.silhouette.backSilhouette)
    /\ {"backgroundOrbs", "foregroundOrbs", "directionalBlur"} \subseteq StagesDone

\* the operations a stage drew on the target, in call order
StageOps(raster, stage) == SelectSeq(raster, LAMBDA o : o.stage = stage)

\* the orb an operation of renderOrb drew: its fill tells the orbs apart
DrawsOrb(op, orb) ==
    /\ op.op = "orb"
    /\ IF orb.type = "radial"
       THEN op.fill.kind = "radial"
                /\ {op.fill.colorStops[j].color : j \in DOMAIN op.fill.colorStops}
                       = {orb.stops[j].color : j \in DOMAIN orb.stops}
       ELSE op.fill = ColorFill(orb.color)

\* C26: in a render each optional stage is executed iff its enabling condition
\* holds and is otherwise skipped without affecting the other stages: the
\* background orbs are drawn, in array order, iff showBackgroundOrbs; the
\* back-silhouette layer is non-empty only if backSilhouette.enabled; the
\* foreground-orb layer is composited iff showForegroundOrbs and foregroundOrbs
\* is non-empty; the directional blur pass runs iff progressiveBlur.enabled and
\* max(startBlur, endBlur) > 0.  What the background, the back silhouette, the
\* silhouette and the orb stages draw does not depend on the other stages'
\* switches.  Stated of the renders that have returned.
C26_OptionalStages ==
    rnPc = "done" =>
        /\ \A r \in DOMAIN rendered :
              LET p == rendered[r].called.params
                  raster == rendered[r].raster
                  pb == p.progressiveBlur
                  bgOrbs == StageOps(raster, "backgroundOrbs")
              IN  /\ IF p.showBackgroundOrbs
                     THEN /\ Len(bgOrbs) = Len(p.backgroundOrbs)
                          /\ \A j \in DOMAIN bgOrbs : DrawsOrb(bgOrbs[j], p.backgroundOrbs[j])
                     ELSE bgOrbs = <<>>
                  /\ Len(StageOps(raster, "backSilhouette")) = 1
                  /\ StageOps(raster, "backSilhouette")[1].src # <<>> => p.silhouette.backSilhouette.enabled
                  /\ Len(StageOps(raster, "foregroundOrbs"))
                         = IF p.showForegroundOrbs /\ Len(p.foregroundOrbs) > 0 THEN 1 ELSE 0
                  /\ Len(StageOps(raster, "directionalBlur"))
                         = IF pb.enabled /\ (pb.startBlur > 0 \/ pb.endBlur > 0) THEN 1 ELSE 0
                  /\ Len(StageOps(raster, "background")) = 1
                  /\ Len(StageOps(raster, "silhouette")) = 1
        /\ \A a, b \in DOMAIN rendered :
              LET ca == rendered[a].called
                  cb == rendered[b].called
                  ra == rendered[a].raster
                  rb == rendered[b].raster
              IN  (ca.image = cb.image /\ ca.maskImage = cb.maskImage) =>
                      /\ ca.params.background = cb.params.background =>
                             StageOps(ra, "background") = StageOps(rb, "background")
                      /\ ca.params.silhouette = cb.params.silhouette =>
                             /\ StageOps(ra, "backSilhouette") = StageOps(rb, "backSilhouette")
                             /\ StageOps(ra, "silhouette") = StageOps(rb, "silhouette")
                      /\ (ca.params.showBackgroundOrbs = cb.params.showBackgroundOrbs
                              /\ ca.params.backgroundOrbs = cb.params.backgroundOrbs) =>
                             StageOps(ra, "backgroundOrbs") = StageOps(rb, "backgroundOrbs")
                      /\ (ca.params.showForegroundOrbs = cb.params.showForegroundOrbs
                              /\ ca.params.foregroundOrbs = cb.params.foregroundOrbs) =>
                             StageOps(ra, "foregroundOrbs") = StageOps(rb, "foregroundOrbs")

\* C26 witness: two renders of the same image and mask, the first with the
\* directional blur enabled at zero radius, background orbs drawn and the
\* back silhouette disabled, the second with the blur switched off
C26_Witness ==
    /\ Len(rendered) = 2
    /\ rendered[1].called.maskImage = rendered[2].called.maskImage
    /\ rendered[1].called.params.progressiveBlur = [enabled |-> TRUE, startBlur |-> 0, endBlur |-> 0]
    /\ ~rendered[2].called.params.progressiveBlur.enabled
    /\ rendered[1].called.params.showBackgroundOrbs
    /\ ~rendered[1].called.params.silhouette.backSilhouette.enabled
    /\ rendered[1].called.params.showForegroundOrbs
    /\ rendered[1].called.params.foregroundOrbs = <<>>

(***************************************************************************)
(* Claims about drawImageCover                                             *)
(***************************************************************************)
\* C21: for a source of positive size the rectangle drawImageCover draws
\* covers the whole target of logical size W x H: x <= 0, y <= 0,
\* x + scaledW >= W and y + scaledH >= H, for every positive W and H
\* including non-integer preview sizes.
C21_CoversTarget ==
    dicPc = "drawn" =>
        /\ dic.rect.x <= 0
        /\ dic.rect.y <= 0
        /\ (dic.rect.x + dic.rect.scaledW) * dic.logicalW.d >= dic.logicalW.n
        /\ (dic.rect.y + dic.rect.scaledH) * dic.logicalH.d >= dic.logicalH.n

\* the loop has just written the alpha of a stroke pixel
StrokePixel == PixelProcessed /\ cur.written

\* blur * (0.5 + targetWidth / 54) for the blur and the width interpolated at
\* the pixel last processed: the numerator over 54 * physicalW^2
ScaledBlur ==
    Interpolate(geom.blurStart, geom.blurMid, geom.blurEnd, cur.t, geom.physicalW)
        * (27 * geom.physicalW + cur.currentTargetWidth)

\* C24: the feather radius used at every stroke pixel equals
\* max(1, blur * (0.5 + targetWidth / 54)) for the blur and the target width
\* interpolated at that pixel, whatever the control widths and feather amounts
\* (zero and negative ones included); it is always >= 1, so smoothstep is never
\* evaluated over an empty interval.
C24_FeatherRadius ==
    /\ StrokePixel =>
          cur.featherRange = Max2(54 * geom.physicalW * geom.physicalW, ScaledBlur)
    /\ PixelProcessed => cur.featherRange >= 54 * geom.physicalW * geom.physicalW

\* C24 witness: a stroke pixel whose interpolated blur is negative, on a layer
\* whose start width is negative
C24_Witness ==
    /\ StrokePixel
    /\ config.strokeWidth < 0
    /\ Interpolate(geom.blurStart, geom.blurMid, geom.blurEnd, cur.t, geom.physicalW) < 0
    /\ cur.alpha > 0

\* createOutlineFromMask has returned a layer it drew (no early return)
OutlineDrawn == olPc = "done" /\ distanceField # <<>>

\* C25: the returned stroke layer is fully transparent at every pixel whose
\* boundary distance is 0 or Infinity and at every pixel where the blurred
\* choke mask exceeds alpha 220; the choke subtraction only lowers the stroke
\* alpha, it never raises it.
C25_TransparentInsideAndChoked ==
    OutlineDrawn =>
        \A x \in 0 .. (geom.physicalW - 1) :
            LET p == x + geom.paddingPhysical
            IN  /\ distanceField[p] \in {0, Inf} => layerAlpha[x] = 0
                /\ chokeData[p] > 220 => layerAlpha[x] = 0
                /\ layerAlpha[x] <= outData[p]

\* C25 witness: a returned layer with a pixel inside the mask and a stroke
\* pixel that the choke erased
C25_Witness ==
    /\ OutlineDrawn
    /\ \E x \in 0 .. (geom.physicalW - 1) : distanceField[x + geom.paddingPhysical] = 0
    /\ \E x \in 0 .. (geom.physicalW - 1) :
          LET p == x + geom.paddingPhysical
          IN  chokeData[p] > 220 /\ outData[p] > 0 /\ layerAlpha[x] = 0

(***************************************************************************)
(* Claims about the default stroke layer                                   *)
(***************************************************************************)
\* alpha of the returned stroke layer at column x of the midline; the layer
\* canvas has no pixel outside 0 .. physicalW - 1
StrokeAlphaAt(x) == IF x \in DOMAIN layerAlpha THEN layerAlpha[x] ELSE 0

\* C22: for a 400 x 500 all-opaque single-colour image and the default back
\* silhouette (widths 4 / 12 / 2, scale 1) the stroke layer is transparent at
\* the silhouette's geometric centre and fully opaque at the pixel
\* strokeWidthMid logical pixels outside the mask boundary on the horizontal
\* midline.
C22_DefaultStrokeCore ==
    (olPc = "done" /\ config = BackSilhouetteDefaults /\ mask = UniformRow(400, 255)) =>
        /\ StrokeAlphaAt(200) = 0
        /\ StrokeAlphaAt(399 + config.strokeWidthMid) = 255 \/ StrokeAlphaAt(0 - config.strokeWidthMid) = 255

(***************************************************************************)
(* Claims about batched parameter updates                                  *)
(***************************************************************************)
ChangedPaths(u) == {c.path : c \in u.changes}

\* two updates that change different fields of the same nested record
DifferentFieldsOfOneRecord(a, b) ==
    /\ ChangedPaths(a) \cap ChangedPaths(b) = {}
    /\ \E pa \in ChangedPaths(a), pb \in ChangedPaths(b) :
          Len(pa) > 1 /\ Len(pb) > 1 /\ Head(pa) = Head(pb)

\* the rendered ControlParams hold every change of the update
Reflected(u) == \A c \in u.changes : GetAt(disp.state, c.path) = c.val

\* C29: two parameter updates dispatched from the same rendered snapshot that
\* change different fields of the same nested record (a drag setting
\* progressiveBlur.startX and a control setting progressiveBlur.enabled or
\* endBlur, a theme change and a back-silhouette edit inside silhouette) are
\* both reflected in the resulting ControlParams, in either dispatch order.
C29_BothUpdatesReflected ==
    \A j, k \in DOMAIN disp.applied :
        (j < k /\ Len(disp.applied) = 2
             /\ DifferentFieldsOfOneRecord(disp.applied[j], disp.applied[k])) =>
            (Reflected(disp.applied[j]) /\ Reflected(disp.applied[k]))

(***************************************************************************)
(* Claims about the pointer handlers                                       *)
(***************************************************************************)
\* only the coordinates of handle A differ
OnlyStartMoved(before, after) == [after EXCEPT !.startX = before.startX, !.startY = before.startY] = before

\* only the coordinates of handle B differ
OnlyEndMoved(before, after) == [after EXCEPT !.endX = before.endX, !.endY = before.endY] = before

InUnitRange(n, d) == 0 <= n /\ n <= d

\* C30: after any sequence of pointer down, move, up and leave events on the
\* canvas: a move changes params only while a drag target is held; a drag
\* target is acquired only on a pointer-down with an image loaded, the overlay
\* shown, progressive blur enabled and the pointer within 15 px of a handle,
\* handle A winning when both are hit; pointer up or leave clears it; a drag
\* of A changes only startX/startY and a drag of B only endX/endY; and every
\* coordinate written lies in [0, 1].
C30_PointerProtocol ==
    LET l == ptr.last
        hitA == Hits(l.x, l.y, l.pb.startX, l.pb.startY)
        hitB == Hits(l.x, l.y, l.pb.endX, l.pb.endY)
        armed == ptr.image /\ l.showOverlay /\ l.pb.enabled
    IN  /\ (l.kind = "move" /\ l.held = "none") => ptr.pb = l.pb
        /\ l.kind \in {"down", "up", "leave"} => ptr.pb = l.pb
        /\ (ptr.dragTarget # "none" /\ ptr.dragTarget # l.held) =>
              /\ l.kind = "down" /\ armed
              /\ ptr.dragTarget = "blurStart" => hitA
              /\ ptr.dragTarget = "blurEnd" => (hitB /\ ~hitA)
        /\ (l.kind = "down" /\ armed /\ hitA) => ptr.dragTarget = "blurStart"
        /\ l.kind \in {"up", "leave"} => ptr.dragTarget = "none"
        /\ (l.kind = "move" /\ l.held = "blurStart") =>
              /\ OnlyStartMoved(l.pb, ptr.pb)
              /\ ptr.pb.startX = Clamp01(l.x, Dimensions.width)
              /\ ptr.pb.startY = Clamp01(l.y, Dimensions.height)
        /\ (l.kind = "move" /\ l.held = "blurEnd") =>
              /\ OnlyEndMoved(l.pb, ptr.pb)
              /\ ptr.pb.endX = Clamp01(l.x, Dimensions.width)
              /\ ptr.pb.endY = Clamp01(l.y, Dimensions.height)
        /\ InUnitRange(ptr.pb.startX, Dimensions.width) /\ InUnitRange(ptr.pb.startY, Dimensions.height)
        /\ InUnitRange(ptr.pb.endX, Dimensions.width) /\ InUnitRange(ptr.pb.endY, Dimensions.height)

\* C30 witness: handle B was dragged next to handle A, a pointer-down within
\* 15 px of both took A, and the drag of A ended outside the canvas
C30_Witness ==
    /\ ptr.last.kind = "move" /\ ptr.last.held = "blurStart"
    /\ ptr.last.x > Dimensions.width
    /\ ptr.pb.startX = Dimensions.width /\ ptr.pb.startY = Dimensions.height
    /\ ptr.pb.endX = 8 /\ ptr.pb.endY = 508
====
